---- MODULE Spec2Model ----
(***************************************************************************)
(* A model of the tabular normalisation pipeline, the mesh loader, the     *)
(* drawing loader and the page script of the geotechnical-events dashboard *)
(* (src/src/data_loader.py, src/src/utils.py, src/src/stl_loader.py,       *)
(* src/src/dxf_loader.py, src/app.py and the panels of                     *)
(* src/src/visualizations.py and src/src/dxf_visualizations.py).           *)
(*                                                                         *)
(* Text is a sequence of one-character strings, so that trimming, regex    *)
(* deletion, replacement and parsing are computed character by character.  *)
(***************************************************************************)
EXTENDS Integers, Sequences, FiniteSets, TLC

VARIABLES
    date_series,     \* parse_date_flexible: the raw column handed in
    cleaned_series,  \* parse_date_flexible: the column after cleaning
    result,          \* parse_date_flexible: one timestamp or NaT per cell
    fmtIdx,          \* parse_date_flexible: position in formats_to_try
    datePc,          \* parse_date_flexible: "start", "formats", "fallback", "done", "raised"
    inferFormat,     \* whether the installed pandas infers one format per to_datetime call
    series,          \* clean_numeric_column: the column handed in
    cleaned,         \* clean_numeric_column: what it returns
    numPc,           \* clean_numeric_column: "start", "done", "failed" (the except branch)
    mesh,            \* STLLoader.mesh: None or the parsed triangle soup
    vertices,        \* STLLoader.vertices: None or the deduplicated vertex array
    faces,           \* STLLoader.faces: None or the face index array
    bounds,          \* STLLoader.bounds: None or (minx, miny, minz, maxx, maxy, maxz)
    mesh_data,       \* the argument of the last export_to_obj call
    stlOp,           \* the last STLLoader operation: "init", "load", "export", "summary"
    stlRet,          \* what that operation returned
    stlMetrics,      \* which numpy-stl metric calls raised in the last get_summary
    loadOp,          \* the DataLoader operation that ran, "none" before any
    source_file,     \* the file it was given: the upload, or the file under data_path
    df,              \* what it returned: None or the processed table
    missing_columns, \* its list of missing critical columns
    log,             \* what it logged: records [level, event, columns]
    st_error,        \* whether it showed a user-facing error (st.error)
    alertas_estado,    \* the 'Estado' column of the alerts table handed to the panels
    eventos_detectado, \* the 'Detectado por Sistema' column of the events table
    dashboard,         \* None, or the dashboard's metrics [detectados, cerradas]
    scatter,           \* None, or create_alerts_scatter's metrics [alertas_abiertas, alertas_cerradas]
    dxf_map,           \* None, or the alert layers of create_dxf_with_events_map (row numbers)
    doc,               \* DXFLoader.doc: None, or the entities of the modelspace
    layers_data,       \* DXFLoader.layers_data
    dxf_bounds,        \* DXFLoader.bounds
    dxfOp,             \* the last DXFLoader operation ("off": no loader)
    dxfSel,            \* the selected_layers argument of the last extraction
    dxfRet,            \* what the last DXFLoader operation returned
    appPc,             \* where the run of main() stands ("off": no app)
    runs,              \* the number of the script run in this session
    eventos_upload,    \* the file in the events uploader (None: none)
    alertas_upload,    \* the file in the alerts uploader (None: none)
    eventos_df,        \* what load_eventos_from_filelike returned in this run
    alertas_df,        \* what load_alertas_from_filelike returned in this run
    loader_calls,      \* the loader calls made in this run
    shown,             \* the messages and download buttons this run has put on the page
    earlier,           \* those of the earlier runs of the session
    sidebar,           \* the sidebar's values [fecha_inicio, fecha_fin, zonas_seleccionadas, tipos_seleccionados]
    eventos_filtrados, \* the rows of eventos_df the filters keep (row numbers)
    alertas_filtradas, \* the rows of alertas_df handed to the tabs (row numbers)
    dxf_click,         \* the file submitted with 'Cargar DXF' in this run (None: no click)
    stl_click,         \* the file submitted with 'Cargar STL' in this run (None: no click)
    session_state,     \* st.session_state [dxf_loader, dxf_loaded, stl_loader, stl_loaded, stl_original_bytes]
    cacheKind,         \* the loader whose file and read cache are followed: "eventos" or "alertas" ("off": none)
    disk_file,         \* the file under data_path: [exists, readable, table, mtime]
    read_cache,        \* st.cache_data of _read_excel_cached: the entries [key, table]
    mtime_kept,        \* whether a modification changed the file and left its mtime as it was
    cacheOp,           \* "none", "modify" or "load"
    cache_ret,         \* what the last load returned
    validation_results \* the dictionary validate_data_integrity returned

dateVars == <<date_series, cleaned_series, result, fmtIdx, datePc, inferFormat>>

numVars == <<series, cleaned, numPc>>

stlVars == <<mesh, vertices, faces, bounds, mesh_data, stlOp, stlRet, stlMetrics>>

loadVars == <<loadOp, source_file, df, missing_columns, log, st_error>>

panelVars == <<alertas_estado, eventos_detectado, dashboard, scatter, dxf_map>>

\* The subsystems added after the four above.
dxfVars == <<doc, layers_data, dxf_bounds, dxfOp, dxfSel, dxfRet>>

appVars ==
    <<appPc, runs, eventos_upload, alertas_upload, eventos_df, alertas_df, loader_calls, shown, earlier,
      sidebar, eventos_filtrados, alertas_filtradas, dxf_click, stl_click, session_state>>

cacheVars == <<cacheKind, disk_file, read_cache, mtime_kept, cacheOp, cache_ret>>

rowsVars == <<validation_results>>

restVars == <<panelVars, dxfVars, appVars, cacheVars, rowsVars>>

vars == <<dateVars, numVars, stlVars, loadVars, restVars>>

\* Python's None, and a value that is not None
None == [none |-> TRUE]

Array(a) == [array |-> a]

\* The subsystems a specification leaves untouched stay in these states.
DateOff ==
    /\ date_series = <<>> /\ cleaned_series = <<>> /\ result = <<>>
    /\ fmtIdx = 0 /\ datePc = "off" /\ inferFormat = FALSE

NumOff == series = <<>> /\ cleaned = <<>> /\ numPc = "off"

StlOff ==
    /\ mesh = None /\ vertices = None /\ faces = None /\ bounds = None
    /\ mesh_data = None /\ stlOp = "off" /\ stlRet = None /\ stlMetrics = None

LoadOff ==
    /\ loadOp = "off" /\ source_file = None /\ df = None
    /\ missing_columns = <<>> /\ log = <<>> /\ st_error = FALSE

PanelOff ==
    /\ alertas_estado = <<>> /\ eventos_detectado = <<>>
    /\ dashboard = None /\ scatter = None /\ dxf_map = None

DxfOff ==
    /\ doc = None /\ layers_data = <<>> /\ dxf_bounds = None
    /\ dxfOp = "off" /\ dxfSel = None /\ dxfRet = None

\* st.session_state when a session starts; a key that is not there reads as
\* the value the tabs initialise it with before they first read it.
NewSession ==
    [dxf_loader |-> None, dxf_loaded |-> FALSE,
     stl_loader |-> None, stl_loaded |-> FALSE, stl_original_bytes |-> None]

\* The values a run of main() starts from.
RunStart ==
    /\ eventos_upload = None /\ alertas_upload = None
    /\ eventos_df = None /\ alertas_df = None
    /\ loader_calls = 0 /\ shown = {} /\ sidebar = None
    /\ eventos_filtrados = None /\ alertas_filtradas = None
    /\ dxf_click = None /\ stl_click = None

AppOff == appPc = "off" /\ runs = 0 /\ earlier = {} /\ session_state = NewSession /\ RunStart

CacheOff ==
    /\ cacheKind = "off" /\ disk_file = None /\ read_cache = {}
    /\ mtime_kept = FALSE /\ cacheOp = "none" /\ cache_ret = None

RowsOff == validation_results = None

RestOff == PanelOff /\ DxfOff /\ AppOff /\ CacheOff /\ RowsOff

-----------------------------------------------------------------------------
(* Characters and text *)

Digits == {"0", "1", "2", "3", "4", "5", "6", "7", "8", "9"}

DigitVal(c) == CHOOSE n \in 0..9 : <<"0", "1", "2", "3", "4", "5", "6", "7", "8", "9">>[n + 1] = c

Whitespace == {" ", "\t"}

RECURSIVE LStrip(_)
LStrip(s) == IF s # <<>> /\ Head(s) \in Whitespace THEN LStrip(Tail(s)) ELSE s

RECURSIVE RStrip(_)
RStrip(s) == IF s # <<>> /\ s[Len(s)] \in Whitespace THEN RStrip(SubSeq(s, 1, Len(s) - 1)) ELSE s

\* str.strip()
Strip(s) == RStrip(LStrip(s))

\* str.replace(r'^[^\d]', '', regex=True): at most one leading non-digit goes
RemoveLeadingNonDigit(s) == IF s # <<>> /\ Head(s) \notin Digits THEN Tail(s) ELSE s

\* the number of consecutive digits of s from position i on
RECURSIVE RunLen(_, _)
RunLen(s, i) == IF i <= Len(s) /\ s[i] \in Digits THEN 1 + RunLen(s, i + 1) ELSE 0

\* the value of the n digits of s from position i on
RECURSIVE Num(_, _, _)
Num(s, i, n) == IF n = 0 THEN 0 ELSE 10 * Num(s, i, n - 1) + DigitVal(s[i + n - 1])

\* The text from position i on as tokens: each run of digits is one number
\* (its value and its length), every other character a token of its own.
RECURSIVE Tokens(_, _)
Tokens(s, i) ==
    IF i > Len(s) THEN <<>>
    ELSE IF s[i] \in Digits
         THEN <<[kind |-> "num", val |-> Num(s, i, RunLen(s, i)), len |-> RunLen(s, i), chr |-> ""]>>
              \o Tokens(s, i + RunLen(s, i))
         ELSE <<[kind |-> "chr", val |-> 0, len |-> 1, chr |-> s[i]]>> \o Tokens(s, i + 1)

-----------------------------------------------------------------------------
(* Calendar *)

NaT == [isNaT |-> TRUE]

IsLeap(y) == (y % 4 = 0 /\ y % 100 # 0) \/ y % 400 = 0

DaysInMonth(y, m) ==
    IF m = 2 THEN (IF IsLeap(y) THEN 29 ELSE 28)
    ELSE IF m \in {4, 6, 9, 11} THEN 30 ELSE 31

ValidDate(y, m, d) == m \in 1..12 /\ d >= 1 /\ d <= DaysInMonth(y, m)

Timestamp(y, m, d, H, M, S) == [year |-> y, month |-> m, day |-> d, hour |-> H, minute |-> M, second |-> S]

-----------------------------------------------------------------------------
(* pandas.to_datetime, as parse_date_flexible calls it *)

NoFields == [ok |-> FALSE]

NoTime == [kind |-> "none", H |-> 0, M |-> 0, S |-> 0]

BadTime == [kind |-> "bad", H |-> 0, M |-> 0, S |-> 0]

IsSpace(tok) == tok.kind = "chr" /\ tok.chr \in Whitespace

IsColon(tok) == tok.kind = "chr" /\ tok.chr = ":"

\* %H, %M and %S take one or two digits
TwoDigits(tok) == tok.kind = "num" /\ tok.len \in 1..2

RECURSIVE DropSpaces(_)
DropSpaces(u) == IF u # <<>> /\ IsSpace(Head(u)) THEN DropSpaces(Tail(u)) ELSE u

\* H:M or H:M:S, and nothing after it
ClockFields(c) ==
    IF /\ Len(c) \in {3, 5}
       /\ TwoDigits(c[1]) /\ IsColon(c[2]) /\ TwoDigits(c[3])
       /\ (Len(c) = 5 => (IsColon(c[4]) /\ TwoDigits(c[5])))
    THEN [kind |-> IF Len(c) = 3 THEN "HM" ELSE "HMS",
          H |-> c[1].val, M |-> c[3].val, S |-> IF Len(c) = 5 THEN c[5].val ELSE 0]
    ELSE BadTime

\* The time part after the year: nothing, or blanks and H:M, or blanks and H:M:S.
TimeFields(u) ==
    IF u = <<>> THEN NoTime
    ELSE IF ~IsSpace(u[1]) THEN BadTime
    ELSE ClockFields(DropSpaces(u))

\* Tokens of the form <digits><c><digits><c'><digits>[ time], taken apart.
FieldsOf(t) ==
    IF /\ Len(t) >= 5
       /\ t[1].kind = "num" /\ t[2].kind = "chr" /\ t[3].kind = "num"
       /\ t[4].kind = "chr" /\ t[5].kind = "num"
    THEN [ok |-> TRUE,
          a |-> t[1].val, alen |-> t[1].len, sep1 |-> t[2].chr,
          b |-> t[3].val, blen |-> t[3].len, sep2 |-> t[4].chr,
          y |-> t[5].val, ylen |-> t[5].len,
          time |-> TimeFields(SubSeq(t, 6, Len(t)))]
    ELSE NoFields

DateFields(s) == FieldsOf(Tokens(s, 1))

ValidTime(t) == t.H \in 0..23 /\ t.M \in 0..59 /\ t.S \in 0..59

\* A strptime format: the order of day and month, the two literal separators,
\* and the time directives that follow the year.
Format(order, sep, time) == [order |-> order, sep1 |-> sep, sep2 |-> sep, time |-> time]

\* The fields of one cell under an explicit format (exact match): %d and %m
\* take one or two digits, %Y four; a text that does not match, or names no
\* calendar date, is coerced to NaT.
ReadFields(f, fmt) ==
    IF /\ f.ok
       /\ f.alen \in 1..2 /\ f.blen \in 1..2 /\ f.ylen = 4
       /\ f.sep1 = fmt.sep1 /\ f.sep2 = fmt.sep2
       /\ f.time.kind = fmt.time
       /\ ValidTime(f.time)
       /\ IF fmt.order = "dmy" THEN ValidDate(f.y, f.b, f.a) ELSE ValidDate(f.y, f.a, f.b)
    THEN IF fmt.order = "dmy"
         THEN Timestamp(f.y, f.b, f.a, f.time.H, f.time.M, f.time.S)
         ELSE Timestamp(f.y, f.a, f.b, f.time.H, f.time.M, f.time.S)
    ELSE NaT

Strptime(s, fmt) == ReadFields(DateFields(s), fmt)

DateSeparators == {"/", "-"}

\* The order the format-less parser settles on with dayfirst=True: day first
\* when the first number cannot be a month or the second can, otherwise
\* month first.
InferredOrder(f) == IF f.a > 12 \/ f.b <= 12 THEN "dmy" ELSE "mdy"

NoFormat == [order |-> "none"]

\* The format the format-less parser reads the fields with; NoFormat when it
\* cannot read them at all.
GuessFields(f) ==
    IF /\ f.ok
       /\ f.alen \in 1..2 /\ f.blen \in 1..2 /\ f.ylen = 4
       /\ f.sep1 \in DateSeparators /\ f.sep2 \in DateSeparators
       /\ f.time.kind # "bad"
       /\ ValidTime(f.time)
       /\ IF InferredOrder(f) = "dmy" THEN ValidDate(f.y, f.b, f.a) ELSE ValidDate(f.y, f.a, f.b)
    THEN [order |-> InferredOrder(f), sep1 |-> f.sep1, sep2 |-> f.sep2, time |-> f.time.kind]
    ELSE NoFormat

GuessFormat(s) == GuessFields(DateFields(s))

\* One cell through the format-less parser with dayfirst=True, errors='coerce'.
ReadGuessed(f, fmt) == IF fmt = NoFormat THEN NaT ELSE ReadFields(f, fmt)

ParseDayFirst(s) == ReadGuessed(DateFields(s), GuessFormat(s))

\* Texts to_datetime treats as missing without parsing them.
NullStrings == {<<>>, <<"n", "a", "n">>, <<"N", "a", "T">>}

\* (a variant of FallbackErrors: the call without errors='coerce')
FallbackErrorsRaise == "raise"

\* errors= of the format-less call
FallbackErrors == "coerce"

\* pd.to_datetime(cells, format=fmt, errors='coerce') on the masked cells.
ToDatetimeFormat(cells, mask, fmt) == [i \in mask |-> Strptime(cells[i], fmt)]

\* The first masked cell that is not missing, 0 when there is none.
FirstPresent(cells, mask) ==
    IF \A i \in mask : cells[i] \in NullStrings THEN 0
    ELSE CHOOSE i \in mask :
            /\ cells[i] \notin NullStrings
            /\ \A j \in mask : cells[j] \notin NullStrings => i <= j

\* The format an installation that infers one takes from the first cell.
InferredFormat(cells, first) == IF first = 0 THEN NoFormat ELSE GuessFormat(cells[first])

\* Every masked cell read with the inferred format, or on its own when none
\* was inferred.
ReadCells(cells, mask, guess) ==
    [i \in mask |->
        IF cells[i] \in NullStrings THEN NaT
        ELSE IF guess # NoFormat THEN Strptime(cells[i], guess)
        ELSE ParseDayFirst(cells[i])]

\* With errors='raise' a cell that cannot be read raises instead of becoming NaT.
Coerced(cells, values, errors) ==
    [raised |-> errors = "raise" /\ \E i \in DOMAIN values : cells[i] \notin NullStrings /\ values[i] = NaT,
     values |-> values]

\* pd.to_datetime(cells, errors=..., dayfirst=True) on the masked cells.  An
\* installation that infers the format takes it from the first cell that is
\* not missing and reads every cell with it; otherwise (and when no format can
\* be inferred) each cell is read on its own.
ToDatetimeDayFirst(cells, mask, infer, errors) ==
    Coerced(cells,
            ReadCells(cells, mask,
                      IF infer THEN InferredFormat(cells, FirstPresent(cells, mask)) ELSE NoFormat),
            errors)

-----------------------------------------------------------------------------
(* parse_date_flexible (the four copies in data_loader.py are the same code) *)

formats_to_try ==
    << Format("dmy", "/", "HM"),     \* '%d/%m/%Y %H:%M'
       Format("dmy", "/", "none"),   \* '%d/%m/%Y'
       Format("dmy", "-", "HM"),     \* '%d-%m-%Y %H:%M'
       Format("dmy", "-", "none") >> \* '%d-%m-%Y'

\* astype(str).str.strip(), then one leading non-digit removed
CleanCell(s) == RemoveLeadingNonDigit(Strip(s))

CleanSeries(col) == [i \in DOMAIN col |-> CleanCell(col[i])]

\* (a variant of NaMask: every cell, parsed or not)
NaMaskAll(res) == DOMAIN res

\* mask = result.isna()
NaMask(res) == {i \in DOMAIN res : res[i] = NaT}

\* result[mask] = values
AssignMasked(res, mask, values) == [i \in DOMAIN res |-> IF i \in mask THEN values[i] ELSE res[i]]

\* One pass of the loop over formats_to_try.
ApplyFormat(res, cells, fmt) ==
    LET mask == NaMask(res)
    IN  IF mask # {} THEN AssignMasked(res, mask, ToDatetimeFormat(cells, mask, fmt)) ELSE res

\* The format-less call on what is still NaT after the loop.
AssignFallback(res, mask, got) == [raised |-> got.raised, values |-> AssignMasked(res, mask, got.values)]

ApplyFallback(res, cells, infer) ==
    IF NaMask(res) = {} THEN [raised |-> FALSE, values |-> res]
    ELSE AssignFallback(res, NaMask(res), ToDatetimeDayFirst(cells, NaMask(res), infer, FallbackErrors))

RECURSIVE ApplyFormats(_, _, _)
ApplyFormats(res, cells, k) ==
    IF k > Len(formats_to_try) THEN res
    ELSE ApplyFormats(ApplyFormat(res, cells, formats_to_try[k]), cells, k + 1)

\* The whole function: [raised, values].
ParseDateFlexible(col, infer) ==
    IF col = <<>> THEN [raised |-> FALSE, values |-> col]
    ELSE LET cells == CleanSeries(col)
         IN  ApplyFallback(ApplyFormats([i \in DOMAIN col |-> NaT], cells, 1), cells, infer)

\* The cells the date columns are drawn from.
Year2025 == <<"2", "0", "2", "5">>

DayTexts == {<<"0", "1">>, <<"1", "3">>, <<"3", "1">>}

MonthTexts == {<<"0", "2">>, <<"1", "3">>}

HM1430 == <<" ", "1", "4", ":", "3", "0">>

DateText(d, sep, m, t) == d \o <<sep>> \o m \o <<sep>> \o Year2025 \o t

DateCells ==
    {DateText(d, sep, m, <<>>) : <<d, sep, m>> \in DayTexts \X DateSeparators \X MonthTexts}
    \cup {DateText(<<"0", "1">>, "/", <<"0", "2">>, HM1430),
          DateText(<<"0", "1">>, "-", <<"1", "3">>, HM1430),
          DateText(<<"1", "3">>, "-", <<"0", "2">>, HM1430),
          DateText(<<"0", "7">>, "/", <<"0", "7">>, <<" ", "2", "5", ":", "3", "0">>),
          DateText(<<"0", "1">>, "/", <<"0", "2">>, HM1430 \o <<":", "1", "5">>),
          DateText(<<"0", "1">>, "/", <<"1", "3">>, HM1430 \o <<":", "1", "5">>),
          <<"'">> \o DateText(<<"0", "7">>, "/", <<"0", "7">>, HM1430),
          <<" ">> \o DateText(<<"0", "1">>, "-", <<"0", "2">>, <<" ">>),
          DateText(<<"7">>, "/", <<"7">>, <<>>),
          <<"2", "9", "/", "0", "2", "/", "2", "0", "2", "4">>,
          <<"n", "a", "n">>,
          <<"a", "b", "c">>}

MaxCells == 2

RECURSIVE SeqsUpTo(_, _)
SeqsUpTo(S, n) ==
    IF n = 0 THEN {<<>>}
    ELSE LET shorter == SeqsUpTo(S, n - 1)
         IN  shorter \cup {Append(q, x) : <<q, x>> \in {r \in shorter : Len(r) = n - 1} \X S}

DateInit ==
    /\ date_series \in SeqsUpTo(DateCells, MaxCells)
    /\ inferFormat \in BOOLEAN
    /\ cleaned_series = <<>>
    /\ result = <<>>
    /\ fmtIdx = 0
    /\ datePc = "start"
    /\ NumOff /\ StlOff /\ LoadOff /\ RestOff

\* The early return on an empty column, else cleaning and the all-NaT result.
DateClean ==
    /\ datePc = "start"
    /\ IF date_series = <<>>
       THEN /\ result' = date_series
            /\ datePc' = "done"
            /\ UNCHANGED <<cleaned_series, fmtIdx>>
       ELSE /\ cleaned_series' = CleanSeries(date_series)
            /\ result' = [i \in DOMAIN date_series |-> NaT]
            /\ fmtIdx' = 1
            /\ datePc' = "formats"
    /\ UNCHANGED <<date_series, inferFormat, numVars, stlVars, loadVars, restVars>>

\* One iteration of `for fmt in formats_to_try`.
DateTryFormat ==
    /\ datePc = "formats"
    /\ result' = ApplyFormat(result, cleaned_series, formats_to_try[fmtIdx])
    /\ IF fmtIdx < Len(formats_to_try)
       THEN fmtIdx' = fmtIdx + 1 /\ datePc' = "formats"
       ELSE fmtIdx' = fmtIdx /\ datePc' = "fallback"
    /\ UNCHANGED <<date_series, cleaned_series, inferFormat, numVars, stlVars, loadVars, restVars>>

\* The format-less call and the return; an exception leaves the function.
DateFallback ==
    /\ datePc = "fallback"
    /\ \E got \in {ApplyFallback(result, cleaned_series, inferFormat)} :
           /\ result' = IF got.raised THEN result ELSE got.values
           /\ datePc' = IF got.raised THEN "raised" ELSE "done"
    /\ UNCHANGED <<date_series, cleaned_series, fmtIdx, inferFormat, numVars, stlVars, loadVars, restVars>>

DateNext == DateClean \/ DateTryFormat \/ DateFallback

SpecDate == DateInit /\ [][DateNext]_vars

-----------------------------------------------------------------------------
(* pandas.to_numeric and clean_numeric_column (utils.py) *)

NaN == [isNaN |-> TRUE]

RECURSIVE Pow10(_)
Pow10(n) == IF n = 0 THEN 1 ELSE 10 * Pow10(n - 1)

\* A decimal value mant * 10^-scale, with no trailing zero in the fraction.
RECURSIVE Decimal(_, _)
Decimal(mant, scale) ==
    IF scale > 0 /\ mant % 10 = 0 THEN Decimal(mant \div 10, scale - 1)
    ELSE [mant |-> mant, scale |-> scale]

\* One text cell as a float: an optional sign, digits with at most one '.',
\* at least one digit, and nothing else; anything else is not a number.
ParseFloat(s) ==
    LET signed == s # <<>> /\ Head(s) \in {"-", "+"}
        start == IF signed THEN 2 ELSE 1
        n1 == RunLen(s, start)
        p == start + n1
        dot == p <= Len(s) /\ s[p] = "."
        n2 == IF dot THEN RunLen(s, p + 1) ELSE 0
        end == IF dot THEN p + 1 + n2 ELSE p
        mag == Num(s, start, n1) * Pow10(n2) + (IF dot THEN Num(s, p + 1, n2) ELSE 0)
    IN  IF n1 + n2 >= 1 /\ end = Len(s) + 1
        THEN Decimal(IF signed /\ Head(s) = "-" THEN 0 - mag ELSE mag, n2)
        ELSE NaN

\* pd.to_numeric(cells, errors=...): with 'coerce' a cell that is not a
\* number becomes NaN, with 'raise' the call raises.
ToNumeric(cells, errors) ==
    LET values == [i \in DOMAIN cells |-> ParseFloat(cells[i])]
    IN  [raised |-> errors = "raise" /\ \E i \in DOMAIN cells : values[i] = NaN,
         values |-> values]

\* str.replace(r'[^...]', '', regex=True): every character outside keep goes
RECURSIVE DeleteOutside(_, _)
DeleteOutside(s, keep) ==
    IF s = <<>> THEN <<>>
    ELSE (IF Head(s) \in keep THEN <<Head(s)>> ELSE <<>>) \o DeleteOutside(Tail(s), keep)

\* str.replace(old, new): every occurrence of the character old becomes new
ReplaceChar(s, old, new) == [i \in DOMAIN s |-> IF s[i] = old THEN new ELSE s[i]]

\* (a variant of NumericKeep: the character class without the comma)
NumericKeepNoComma == Digits \cup {".", "-"}

\* The character class of r'[^\d.,-]'
NumericKeep == Digits \cup {".", ",", "-"}

\* (a variant of ReplaceCommas: the commas stay)
ReplaceCommasNot(s) == s

\* cleaned.str.replace(',', '.')
ReplaceCommas(s) == ReplaceChar(s, ",", ".")

\* (a variant of NumericErrors: the conversion without errors='coerce')
NumericErrorsRaise == "raise"

\* errors= of the conversion in clean_numeric_column
NumericErrors == "coerce"

\* The text of one cell before the conversion.
NumericText(s) == ReplaceCommas(DeleteOutside(s, NumericKeep))

\* The whole function: on an exception the column comes back as it was.
CleanNumericColumn(col) ==
    LET got == ToNumeric([i \in DOMAIN col |-> NumericText(col[i])], NumericErrors)
    IN  IF got.raised THEN [failed |-> TRUE, values |-> col]
        ELSE [failed |-> FALSE, values |-> got.values]

\* The cells the numeric columns are drawn from: a numeral, possibly between
\* a currency sign or a minus sign and a unit.
NumeralTexts ==
    { <<"1", "2", ",", "5">>,
      <<"1", "2", ".", "5">>,
      <<"1", ".", "2", "3", "4", ",", "5", "6">>,
      <<"1", ",", "2", "3", "4", ".", "5", "6">>,
      <<"0", ",", "5", "0">>,
      <<"7">>,
      <<>> }

NumeralPrefixes == {<<>>, <<"$", " ">>, <<"-">>}

NumeralSuffixes == {<<>>, <<" ", "m", "m">>, <<" ", "m", "m", ".">>}

NumericCells == {pre \o num \o post : <<pre, num, post>> \in NumeralPrefixes \X NumeralTexts \X NumeralSuffixes}

NumInit ==
    /\ series \in SeqsUpTo(NumericCells, MaxCells)
    /\ cleaned = <<>>
    /\ numPc = "start"
    /\ DateOff /\ StlOff /\ LoadOff /\ RestOff

NumClean ==
    /\ numPc = "start"
    /\ LET got == CleanNumericColumn(series)
       IN  /\ cleaned' = got.values
           /\ numPc' = IF got.failed THEN "failed" ELSE "done"
    /\ UNCHANGED <<series, dateVars, stlVars, loadVars, restVars>>

NumNext == NumClean

SpecNum == NumInit /\ [][NumNext]_vars


-----------------------------------------------------------------------------
(* STLLoader (stl_loader.py) *)

\* Coordinates are whole numbers of 1e-7 units.
RowLess(r, q) ==
    \/ r[1] < q[1]
    \/ r[1] = q[1] /\ r[2] < q[2]
    \/ r[1] = q[1] /\ r[2] = q[2] /\ r[3] < q[3]

\* The rows of a set in lexicographic order.
RECURSIVE SortRows(_)
SortRows(S) ==
    IF S = {} THEN <<>>
    ELSE LET least == CHOOSE r \in S : \A q \in S \ {r} : RowLess(r, q)
         IN  <<least>> \o SortRows(S \ {least})

\* (a variant of IndexOf: positions counted from one)
IndexOfFromOne(uniq, r) == CHOOSE k \in 1..Len(uniq) : uniq[k] = r

\* The 0-based position of row r in uniq.
IndexOf(uniq, r) == (CHOOSE k \in 1..Len(uniq) : uniq[k] = r) - 1

\* np.unique(rows, axis=0, return_inverse=True): the distinct rows, sorted,
\* and for every input row its position among them.
Unique(rows) ==
    LET uniq == SortRows({rows[i] : i \in DOMAIN rows})
    IN  [unique |-> uniq, inverse |-> [i \in DOMAIN rows |-> IndexOf(uniq, rows[i])]]

\* vectors.reshape(-1, 3): the corners of all triangles, in order
Corners(vectors) == [i \in 1..(3 * Len(vectors)) |-> vectors[((i - 1) \div 3) + 1][((i - 1) % 3) + 1]]

\* inverse.reshape(-1, 3): one row of three indices per triangle
FacesOf(inverse) == [t \in 1..(Len(inverse) \div 3) |-> <<inverse[3 * t - 2], inverse[3 * t - 1], inverse[3 * t]>>]

ColMin(rows, c) == CHOOSE v \in {rows[i][c] : i \in DOMAIN rows} : \A i \in DOMAIN rows : v <= rows[i][c]

ColMax(rows, c) == CHOOSE v \in {rows[i][c] : i \in DOMAIN rows} : \A i \in DOMAIN rows : v >= rows[i][c]

\* _build_geometry on a parsed mesh: the fields it sets, and whether the
\* reduction over an empty vertex array raised before bounds was set.
BuildGeometry(vectors, oldBounds) ==
    LET u == Unique(Corners(vectors))
    IN  [vertices |-> Array(u.unique),
         faces |-> Array(FacesOf(u.inverse)),
         raised |-> u.unique = <<>>,
         bounds |-> IF u.unique = <<>> THEN oldBounds
                    ELSE Array(<<ColMin(u.unique, 1), ColMin(u.unique, 2), ColMin(u.unique, 3),
                                 ColMax(u.unique, 1), ColMax(u.unique, 2), ColMax(u.unique, 3)>>)]

\* f"{x:.6f}": the coordinate to six decimals, as a whole number of 1e-6 units
Format6(x) == IF x >= 0 THEN (x + 5) \div 10 ELSE 0 - ((5 - x) \div 10)

VertexLine(v) == [kind |-> "v", x |-> Format6(v[1]), y |-> Format6(v[2]), z |-> Format6(v[3])]

\* (a variant of FaceLine: the indices written as they are)
FaceLineFromZero(f) == [kind |-> "f", i |-> f[1], j |-> f[2], k |-> f[3]]

FaceLine(f) == [kind |-> "f", i |-> f[1] + 1, j |-> f[2] + 1, k |-> f[3] + 1]

\* export_to_obj: None for no mesh, else the lines of the OBJ text.
ExportToObj(md) ==
    IF md = None THEN None
    ELSE LET u == Unique(Corners(md.array))
             fs == FacesOf(u.inverse)
         IN  Array([i \in DOMAIN u.unique |-> VertexLine(u.unique[i])]
                   \o [t \in DOMAIN fs |-> FaceLine(fs[t])])

\* (a variant of VertexCount: the number of coordinates, vertices.size)
VertexCountSize(vs) == 3 * Len(vs.array)

\* int(self.vertices.shape[0])
VertexCount(vs) == Len(vs.array)

\* int(self.faces.shape[0])
FaceCount(fs) == Len(fs.array)

\* get_summary on the loader's fields: {} without vertices or faces, an
\* exception when bounds cannot be unpacked, else the counts, the bounds and
\* the size.  (The mass properties and the area are not modelled.)
\* A metric numpy-stl computed (its number is left out).
Computed(metric) == [computed |-> metric]

\* try: value / except Exception: None
TryOr(raises, value, otherwise) == IF raises THEN otherwise ELSE value

\* What the metric calls of numpy-stl can do: each returns or raises.
MetricOutcomes == [mass : BOOLEAN, areas : BOOLEAN, cross : BOOLEAN]

\* get_summary: {} without geometry; the metrics, each None when its call
\* raised (m says which do); then the unpacking of self.bounds, which raises
\* on None.
GetSummary(vs, fs, bnds, m) ==
    IF vs = None \/ fs = None THEN [kind |-> "empty"]
    ELSE IF bnds = None THEN [kind |-> "raised"]
    ELSE [kind |-> "summary",
          vertices_count |-> VertexCount(vs),
          faces_count |-> FaceCount(fs),
          bounds |-> [min |-> SubSeq(bnds.array, 1, 3), max |-> SubSeq(bnds.array, 4, 6)],
          size |-> [width |-> bnds.array[4] - bnds.array[1],
                    height |-> bnds.array[5] - bnds.array[2],
                    depth |-> bnds.array[6] - bnds.array[3]],
          volume |-> TryOr(m.mass, Computed("volume"), None),
          center_of_gravity |-> TryOr(m.mass, Computed("cog"), None),
          surface_area |-> TryOr(m.areas, Computed("areas"), TryOr(m.cross, Computed("cross"), None))]

\* The corners and triangles the mesh files are made of.  P3 lies less than
\* 1e-6 from P0.
P0 == <<0, 0, 0>>

P1 == <<10000000, 0, 0>>

P2 == <<0, 10000000, 0>>

P3 == <<0, 0, 4>>

TrianglePool == {<<P0, P1, P2>>, <<P2, P1, P3>>, <<P3, P0, P1>>, <<P1, P1, P0>>, <<P2, P3, P0>>}

MaxTriangles == 2

\* What Mesh.from_file can meet: a file it rejects, or a triangle soup.
Unreadable == [unreadable |-> TRUE]

StlFiles == {Unreadable} \cup {Array(v) : v \in SeqsUpTo(TrianglePool, MaxTriangles)}

StlInit ==
    /\ mesh = None /\ vertices = None /\ faces = None /\ bounds = None
    /\ mesh_data = None /\ stlOp = "init" /\ stlRet = None /\ stlMetrics = None
    /\ DateOff /\ NumOff /\ LoadOff /\ RestOff

\* load_stl_file: the parser raises and nothing is assigned, or the mesh is
\* stored and _build_geometry runs; any exception gives False.
LoadStlFile ==
    \E file \in StlFiles :
        /\ IF file = Unreadable
           THEN /\ stlRet' = FALSE
                /\ UNCHANGED <<mesh, vertices, faces, bounds>>
           ELSE LET g == BuildGeometry(file.array, bounds)
                IN  /\ mesh' = file
                    /\ vertices' = g.vertices
                    /\ faces' = g.faces
                    /\ bounds' = g.bounds
                    /\ stlRet' = ~g.raised
        /\ stlOp' = "load"
        /\ mesh_data' = None /\ stlMetrics' = None
        /\ UNCHANGED <<dateVars, numVars, loadVars, restVars>>

\* export_to_obj(mesh_data) with the loader's mesh or with None
ExportObj ==
    \E md \in {None, mesh} :
        /\ mesh_data' = md
        /\ stlRet' = ExportToObj(md)
        /\ stlOp' = "export" /\ stlMetrics' = None
        /\ UNCHANGED <<mesh, vertices, faces, bounds, dateVars, numVars, loadVars, restVars>>

\* get_summary()
GetSummaryCall ==
    /\ stlOp # "off"
    /\ \E m \in MetricOutcomes :
        /\ stlMetrics' = m
        /\ stlRet' = GetSummary(vertices, faces, bounds, m)
    /\ stlOp' = "summary"
    /\ mesh_data' = None
    /\ UNCHANGED <<mesh, vertices, faces, bounds, dateVars, numVars, loadVars, restVars>>

StlNext == LoadStlFile \/ ExportObj \/ GetSummaryCall

SpecStl == StlInit /\ [][StlNext]_vars


-----------------------------------------------------------------------------
(* DataLoader (data_loader.py) *)

\* expected_columns of load_eventos and load_eventos_from_filelike
EventExpectedColumns ==
    << "id", "Tipo", "Vigilante", "Fecha", "Fecha UTC", "Zona monitoreo",
       "Pared", "Este", "Norte", "Cota", "Alerta de Seguridad Asociada",
       "Tiempo de Activación (h)", "Altura Banco (m)", "Altura Falla (m)",
       "Desplazamiento Acumulado (mm)", "Velocidad Promedio (mm/h)",
       "Velocidad Máxima Últimas 12hrs. (mm/h)",
       "Velocidad Anterior a Velocidad Máxima (mm/h)",
       "Volumen (ton)", "Detectado por Sistema", "Radar Principal",
       "Mecanismos falla", "Fotografía después del evento",
       "Gráfico de desplazamientos Vs. tiempo" >>

\* expected_columns of load_alertas and load_alertas_from_filelike
AlertExpectedColumns ==
    << "id", "Estatus", "Vigilante", "Fecha Declarada", "Fecha Declarada UTC",
       "Evento", "Comportamiento o Velocidad", "Nivel de Exposición",
       "Versión Original", "Zona de Monitoreo", "Localización General",
       "Pared", "Este", "Norte", "Cota", "Observaciones", "Estado",
       "Fecha de Cierre", "Responsable de Cierre", "Geotécnico Operativo",
       "Notificación Telefónica", "Notificación por Correo",
       "Desplazamiento Últimas 12 hrs. (mm)",
       "Velocidad Promedio Últimas 12 hrs. (mm/h)",
       "Velocidad Máxima Últimas 12 hrs. (mm/h)" >>

EventDateColumns == {"Fecha", "Fecha UTC"}

AlertDateColumns == {"Fecha Declarada", "Fecha Declarada UTC", "Fecha de Cierre"}

EventNumericColumns ==
    {"Este", "Norte", "Cota", "Altura Banco (m)", "Altura Falla (m)",
     "Desplazamiento Acumulado (mm)", "Velocidad Promedio (mm/h)", "Volumen (ton)"}

AlertNumericColumns ==
    {"Este", "Norte", "Cota", "Desplazamiento Últimas 12 hrs. (mm)",
     "Velocidad Promedio Últimas 12 hrs. (mm/h)",
     "Velocidad Máxima Últimas 12 hrs. (mm/h)"}

ExpectedColumns(kind) == IF kind = "eventos" THEN EventExpectedColumns ELSE AlertExpectedColumns

DateColumns(kind) == IF kind = "eventos" THEN EventDateColumns ELSE AlertDateColumns

NumericColumns(kind) == IF kind = "eventos" THEN EventNumericColumns ELSE AlertNumericColumns

\* (a variant of CriticalCount: a slice one column longer)
CriticalCountEleven == 10 + 1

\* The slice expected_columns[:10]
CriticalCount == 10

RECURSIVE SelectSeq2(_, _)
SelectSeq2(q, S) ==
    IF q = <<>> THEN <<>>
    ELSE (IF Head(q) \in S THEN <<>> ELSE <<Head(q)>>) \o SelectSeq2(Tail(q), S)

\* [col for col in expected_columns[:10] if col not in df.columns]
MissingColumns(kind, table) == SelectSeq2(SubSeq(ExpectedColumns(kind), 1, CriticalCount), DOMAIN table)

\* (a variant of ColumnsToProcess: without the `if col in df.columns` guard)
ColumnsToProcessUnguarded(wanted, table) == wanted

\* The columns of `wanted` that a processing loop touches.
ColumnsToProcess(wanted, table) == wanted \cap DOMAIN table

\* errors= of the loaders' pd.to_numeric
LoaderNumericErrors == "coerce"

\* The date and the numeric columns converted, each to [raised, values].
ConvertColumns(table, dates, nums, infer) ==
    [c \in (dates \cup nums) \cap DOMAIN table |->
        IF c \in dates THEN ParseDateFlexible(table[c], infer)
        ELSE ToNumeric(table[c], LoaderNumericErrors)]

\* The table with its converted columns; as it was when a step raised.
ProcessResult(table, missing, raised, conv) ==
    [raised |-> raised,
     missing |-> missing,
     table |-> IF raised THEN table
               ELSE [c \in DOMAIN table |-> IF c \in DOMAIN conv THEN conv[c].values ELSE table[c]]]

ProcessConverted(table, missing, touched, conv) ==
    ProcessResult(table, missing,
                  (\E c \in touched : c \notin DOMAIN table) \/ (\E c \in DOMAIN conv : conv[c].raised),
                  conv)

ProcessColumns(table, missing, dates, nums, infer) ==
    ProcessConverted(table, missing, dates \cup nums, ConvertColumns(table, dates, nums, infer))

\* What follows the read in each of the four loaders: the missing-column
\* notice, the date columns, the numeric columns.  An exception (a column
\* that is not there, a conversion that raises) leaves through the except
\* branch.
ProcessTable(kind, table, infer) ==
    ProcessColumns(table, MissingColumns(kind, table),
                   ColumnsToProcess(DateColumns(kind), table),
                   ColumnsToProcess(NumericColumns(kind), table), infer)

\* str.lower() on the letters file suffixes are written with
LowerChar(c) ==
    CASE c = "X" -> "x" [] c = "L" -> "l" [] c = "S" -> "s" [] c = "C" -> "c"
      [] c = "V" -> "v" [] c = "T" -> "t" [] c = "P" -> "p" [] c = "D" -> "d"
      [] c = "F" -> "f" [] OTHER -> c

Lower(s) == [i \in DOMAIN s |-> LowerChar(s[i])]

\* (a variant of ReadableSuffixes: one that also reads .pdf)
ReadableSuffixesAndPdf ==
    {<<".", "x", "l", "s", "x">>, <<".", "x", "l", "s">>, <<".", "c", "s", "v">>, <<".", "t", "x", "t">>,
     <<".", "p", "d", "f">>}

\* The extensions the dispatch of the upload loaders reads
ReadableSuffixes ==
    {<<".", "x", "l", "s", "x">>, <<".", "x", "l", "s">>, <<".", "c", "s", "v">>, <<".", "t", "x", "t">>}

\* The tables the files hold: one row; every date column holds the same date
\* cell, every numeric column the same numeric cell, every other column text.
LoadDateCells ==
    {DateText(<<"0", "1">>, "/", <<"0", "2">>, HM1430), DateText(<<"0", "1">>, "/", <<"1", "3">>, <<>>)}

LoadNumericCells == {<<"1", "2", ",", "5">>, <<"3", "4", "5", "0", "0", "0", ".", "5">>}

OtherCell == <<"x">>

EventUniverse == {EventExpectedColumns[i] : i \in 1..11}

AlertUniverse == {AlertExpectedColumns[i] : i \in (1..10) \cup {12, 13}}

Universe(kind) == IF kind = "eventos" THEN EventUniverse ELSE AlertUniverse

TableOf(kind, present, dateCell, numCell) ==
    [c \in present |->
        IF c \in DateColumns(kind) THEN <<dateCell>>
        ELSE IF c \in NumericColumns(kind) THEN <<numCell>>
        ELSE <<OtherCell>>]

Tables(kind) ==
    {TableOf(kind, present, d, n) : <<present, d, n>> \in (SUBSET Universe(kind)) \X LoadDateCells \X LoadNumericCells}

\* One full table per kind, for the files whose suffix or state is at issue.
SampleTable(kind) ==
    TableOf(kind, Universe(kind), DateText(<<"0", "1">>, "/", <<"0", "2">>, HM1430), <<"1", "2", ",", "5">>)

OtherSuffixes ==
    {<<".", "X", "L", "S", "X">>, <<".", "x", "l", "s">>, <<".", "c", "s", "v">>, <<".", "t", "x", "t">>,
     <<".", "p", "d", "f">>, <<>>}

\* An upload: its suffix, whether the reader can read it, and the table in it.
Uploads(kind) ==
    {[suffix |-> <<".", "x", "l", "s", "x">>, readable |-> TRUE, table |-> t] : t \in Tables(kind)}
    \cup {[suffix |-> x, readable |-> r, table |-> SampleTable(kind)] : <<x, r>> \in OtherSuffixes \X BOOLEAN}

\* The file under data_path: there or not, readable or not.
DiskFiles(kind) ==
    {[exists |-> TRUE, readable |-> TRUE, table |-> t] : t \in Tables(kind)}
    \cup {[exists |-> e, readable |-> FALSE, table |-> SampleTable(kind)] : e \in BOOLEAN}

\* logger.info(f"Columnas faltantes ...: {missing_columns}")
Info(columns) == [level |-> "info", event |-> "missing", columns |-> columns]

\* logger.info(f"... cargados ...: {len(df)} registros")
Loaded == [level |-> "info", event |-> "loaded", columns |-> <<>>]

\* logger.error(...)
Error == [level |-> "error", event |-> "failed", columns |-> <<>>]

\* The notice about missing critical columns, when there are any, and the
\* closing success message.
ProcessLog(missing) == (IF missing # <<>> THEN <<Info(missing)>> ELSE <<>>) \o <<Loaded>>

LoadInit ==
    /\ loadOp = "none" /\ source_file = None /\ df = None
    /\ missing_columns = <<>> /\ log = <<>> /\ st_error = FALSE
    /\ inferFormat \in BOOLEAN
    /\ date_series = <<>> /\ cleaned_series = <<>> /\ result = <<>>
    /\ fmtIdx = 0 /\ datePc = "off"
    /\ NumOff /\ StlOff /\ RestOff

\* The state a loader leaves behind once the table has been read.
Processed(got, upload) ==
    /\ missing_columns' = got.missing
    /\ df' = IF got.raised THEN None ELSE Array(got.table)
    /\ st_error' = (upload /\ got.raised)
    /\ log' = IF got.raised
              THEN (IF got.missing # <<>> THEN <<Info(got.missing)>> ELSE <<>>) \o <<Error>>
              ELSE ProcessLog(got.missing)

\* load_eventos / load_alertas: the file under data_path
LoadFromDisk(op, kind) ==
    /\ loadOp = "none"
    /\ \E file \in DiskFiles(kind) :
        /\ loadOp' = op
        /\ source_file' = file
        /\ IF ~file.exists \/ ~file.readable
           THEN df' = None /\ missing_columns' = <<>> /\ log' = <<Error>> /\ st_error' = FALSE
           ELSE \E got \in {ProcessTable(kind, file.table, inferFormat)} : Processed(got, FALSE)
    /\ UNCHANGED <<dateVars, numVars, stlVars, restVars>>

\* load_eventos_from_filelike / load_alertas_from_filelike: an upload
LoadFromFilelike(op, kind) ==
    /\ loadOp = "none"
    /\ \E file \in Uploads(kind) :
        /\ loadOp' = op
        /\ source_file' = file
        /\ IF Lower(file.suffix) \notin ReadableSuffixes
           THEN df' = None /\ missing_columns' = <<>> /\ log' = <<>> /\ st_error' = TRUE
           ELSE IF ~file.readable
           THEN df' = None /\ missing_columns' = <<>> /\ log' = <<Error>> /\ st_error' = TRUE
           ELSE \E got \in {ProcessTable(kind, file.table, inferFormat)} : Processed(got, TRUE)
    /\ UNCHANGED <<dateVars, numVars, stlVars, restVars>>

load_eventos == LoadFromDisk("load_eventos", "eventos")

load_alertas == LoadFromDisk("load_alertas", "alertas")

load_eventos_from_filelike == LoadFromFilelike("load_eventos_from_filelike", "eventos")

load_alertas_from_filelike == LoadFromFilelike("load_alertas_from_filelike", "alertas")

LoadNext == load_eventos \/ load_alertas \/ load_eventos_from_filelike \/ load_alertas_from_filelike

SpecLoad == LoadInit /\ [][LoadNext]_vars


-----------------------------------------------------------------------------
(* Tables of several rows through the loaders, and validate_data_integrity *)

Row(table, i) == [c \in DOMAIN table |-> table[c][i]]

RowCount(table) == IF DOMAIN table = {} THEN 0 ELSE Len(table[CHOOSE c \in DOMAIN table : TRUE])

\* DataFrame.duplicated(): a row is marked when an earlier row equals it
Duplicated(table) == {i \in 1..RowCount(table) : \E j \in 1..(i - 1) : Row(table, j) = Row(table, i)}

\* The columns a loader converts; the cells of the others are text.
ConvertedColumns == EventDateColumns \cup AlertDateColumns \cup EventNumericColumns \cup AlertNumericColumns

\* DataFrame.isnull().sum().sum(): the null cells (text cells are never null
\* in the tables followed)
NullCells(table) ==
    {<<c, i>> \in ((DOMAIN table) \cap ConvertedColumns) \X (1..RowCount(table)) :
        table[c][i] = NaT \/ table[c][i] = NaN}

\* df[['Este', 'Norte']].notna().all(axis=1).sum(), 0 without both columns
ValidCoordinates(table) ==
    IF {"Este", "Norte"} \subseteq DOMAIN table
    THEN Cardinality({i \in 1..RowCount(table) : table["Este"][i] # NaN /\ table["Norte"][i] # NaN})
    ELSE 0

\* df[date_column].notna().sum(), 0 without the column
ValidDateCount(table, column) ==
    IF column \in DOMAIN table
    THEN Cardinality({i \in 1..RowCount(table) : table[column][i] # NaT})
    ELSE 0

NoValidation == [duplicados |-> 0, valores_nulos |-> 0, coordenadas_validas |-> 0, fechas_validas |-> 0]

Validation(frame, column) ==
    IF frame = None THEN NoValidation
    ELSE [duplicados |-> Cardinality(Duplicated(frame.array)),
          valores_nulos |-> Cardinality(NullCells(frame.array)),
          coordenadas_validas |-> ValidCoordinates(frame.array),
          fechas_validas |-> ValidDateCount(frame.array, column)]

ValidateDataIntegrity(eventos, alertas) ==
    [eventos |-> Validation(eventos, "Fecha"), alertas |-> Validation(alertas, "Fecha Declarada")]

\* (a variant of Validated: as many rows fewer as are marked)
ValidatedDeduplicated(frame) ==
    IF frame = None THEN None
    ELSE Array([c \in DOMAIN frame.array |->
                   SubSeq(frame.array[c], 1, RowCount(frame.array) - Cardinality(Duplicated(frame.array)))])

\* The frame validate_data_integrity was given, after the call: it only reads.
Validated(frame) == frame

\* The rows the files hold: a date cell, a numeric cell and a text cell.
Unparseable == DateText(<<"3", "1">>, "/", <<"1", "3">>, <<>>)

RowPool ==
    {[date |-> DateText(<<"0", "1">>, "/", <<"0", "2">>, HM1430), num |-> <<"7">>, text |-> <<"x">>],
     [date |-> Unparseable, num |-> <<"7">>, text |-> <<"x">>],
     [date |-> DateText(<<"0", "1">>, "/", <<"0", "2">>, HM1430), num |-> <<"1", "2", ",", "5">>, text |-> <<"x">>],
     [date |-> DateText(<<"1", "3">>, "/", <<"0", "2">>, <<>>), num |-> <<"7">>, text |-> <<"y">>]}

MaxRows == 2

RowsDateColumn(kind) == IF kind = "eventos" THEN "Fecha" ELSE "Fecha Declarada"

RowsTable(kind, rows) ==
    [c \in {RowsDateColumn(kind), "Este", "Norte", "id"} |->
        [i \in DOMAIN rows |->
            IF c = "id" THEN rows[i].text ELSE IF c \in {"Este", "Norte"} THEN rows[i].num ELSE rows[i].date]]

RowsTables(kind) == {RowsTable(kind, rows) : rows \in SeqsUpTo(RowPool, MaxRows) \ {<<>>}}

RowsInit ==
    /\ loadOp = "none" /\ source_file = None /\ df = None
    /\ missing_columns = <<>> /\ log = <<>> /\ st_error = FALSE
    /\ validation_results = None
    /\ inferFormat \in BOOLEAN
    /\ date_series = <<>> /\ cleaned_series = <<>> /\ result = <<>>
    /\ fmtIdx = 0 /\ datePc = "off"
    /\ NumOff /\ StlOff /\ PanelOff /\ DxfOff /\ AppOff /\ CacheOff

OutsideRows == <<dateVars, numVars, stlVars, panelVars, dxfVars, appVars, cacheVars>>

\* Any of the four loaders on a readable file of several rows.
LoadRows(op, kind, upload) ==
    /\ loadOp = "none"
    /\ \E t \in RowsTables(kind) :
        /\ loadOp' = op
        /\ source_file' = [suffix |-> <<".", "x", "l", "s", "x">>, readable |-> TRUE, table |-> t]
        /\ \E got \in {ProcessTable(kind, t, inferFormat)} : Processed(got, upload)
    /\ UNCHANGED <<validation_results, OutsideRows>>

rows_load_eventos == LoadRows("load_eventos", "eventos", FALSE)

rows_load_alertas == LoadRows("load_alertas", "alertas", FALSE)

rows_load_eventos_from_filelike == LoadRows("load_eventos_from_filelike", "eventos", TRUE)

rows_load_alertas_from_filelike == LoadRows("load_alertas_from_filelike", "alertas", TRUE)

\* validate_data_integrity(eventos_df, alertas_df) on the loaded frame (the
\* other one not loaded).
validate_data_integrity ==
    /\ loadOp \in {"load_eventos", "load_alertas", "load_eventos_from_filelike", "load_alertas_from_filelike"}
    /\ validation_results' =
          IF loadOp \in {"load_eventos", "load_eventos_from_filelike"}
          THEN ValidateDataIntegrity(df, None) ELSE ValidateDataIntegrity(None, df)
    /\ df' = Validated(df)
    /\ loadOp' = "validate_data_integrity"
    /\ UNCHANGED <<source_file, missing_columns, log, st_error, OutsideRows>>

RowsNext ==
    \/ rows_load_eventos \/ rows_load_alertas
    \/ rows_load_eventos_from_filelike \/ rows_load_alertas_from_filelike
    \/ validate_data_integrity

SpecRows == RowsInit /\ [][RowsNext]_vars

-----------------------------------------------------------------------------
(* The read cache of load_eventos / load_alertas: st.cache_data around
   pd.read_excel, called with the file's path and modification time.  The
   cache outlives the loads; every call returns a copy of the cached table. *)

\* The arguments the cached function is called with (the path is the
\* loader's file).
CacheKey(kind, ts) == <<kind, ts>>

CacheHit(kind, file) == \E e \in read_cache : e.key = CacheKey(kind, file.mtime)

\* _read_excel_cached(path, mtime): the cached table, or the file's.
CachedRead(kind, file) ==
    IF CacheHit(kind, file)
    THEN (CHOOSE e \in read_cache : e.key = CacheKey(kind, file.mtime)).table
    ELSE file.table

\* What load_eventos / load_alertas return for a table that was read.
DiskOutcome(got) == IF got.raised THEN None ELSE Array(got.table)

\* The tables the file is given.
CacheTables(kind) ==
    {TableOf(kind, Universe(kind), DateText(<<"0", "1">>, "/", <<"0", "2">>, HM1430), n) : n \in LoadNumericCells}
    \cup {TableOf(kind, Universe(kind) \ {"Este"}, DateText(<<"0", "1">>, "/", <<"1", "3">>, <<>>),
                  <<"1", "2", ",", "5">>)}

MaxMtime == 2

CacheInit ==
    /\ cacheKind \in {"eventos", "alertas"}
    /\ disk_file \in {[exists |-> TRUE, readable |-> TRUE, table |-> t, mtime |-> 1] : t \in CacheTables(cacheKind)}
    /\ read_cache = {} /\ mtime_kept = FALSE /\ cacheOp = "none" /\ cache_ret = None
    /\ inferFormat \in BOOLEAN
    /\ date_series = <<>> /\ cleaned_series = <<>> /\ result = <<>>
    /\ fmtIdx = 0 /\ datePc = "off"
    /\ NumOff /\ StlOff /\ LoadOff /\ PanelOff /\ DxfOff /\ AppOff /\ RowsOff

OutsideCache == <<dateVars, numVars, stlVars, loadVars, panelVars, dxfVars, appVars, rowsVars>>

\* The file is written, removed, damaged or put back; a write gives it the
\* current time, or the time it carries (a copy that preserves times, a
\* write within the clock's resolution).
ModifyFile ==
    /\ cacheKind # "off"
    /\ \E t \in CacheTables(cacheKind), x \in BOOLEAN, r \in BOOLEAN,
          ts \in {disk_file.mtime, disk_file.mtime + 1} :
        /\ ts <= MaxMtime
        /\ disk_file' = [exists |-> x, readable |-> r, table |-> t, mtime |-> ts]
        /\ disk_file' # disk_file
        /\ mtime_kept' = (mtime_kept \/ (ts = disk_file.mtime /\ (t # disk_file.table \/ r # disk_file.readable)))
    /\ cacheOp' = "modify"
    /\ UNCHANGED <<cacheKind, read_cache, cache_ret, OutsideCache>>

\* load_eventos / load_alertas with the cached read.
CachedLoad(kind) ==
    /\ cacheKind = kind
    /\ cacheOp' = "load"
    /\ IF ~disk_file.exists
       THEN cache_ret' = None /\ UNCHANGED read_cache
       ELSE IF ~CacheHit(kind, disk_file) /\ ~disk_file.readable
       THEN cache_ret' = None /\ UNCHANGED read_cache
       ELSE \E t \in {CachedRead(kind, disk_file)} :
                /\ read_cache' = read_cache \cup {[key |-> CacheKey(kind, disk_file.mtime), table |-> t]}
                /\ cache_ret' = DiskOutcome(ProcessTable(kind, t, inferFormat))
    /\ UNCHANGED <<cacheKind, disk_file, mtime_kept, OutsideCache>>

load_eventos_cached == CachedLoad("eventos")

load_alertas_cached == CachedLoad("alertas")

CacheNext == ModifyFile \/ load_eventos_cached \/ load_alertas_cached

SpecCache == CacheInit /\ [][CacheNext]_vars

-----------------------------------------------------------------------------
(* The panels that count or select on 'Detectado por Sistema' and 'Estado'
   (app.py, visualizations.py, dxf_visualizations.py) *)

\* series.value_counts().get(token, 0)
CountOf(col, token) == Cardinality({i \in DOMAIN col : col[i] = token})

\* the rows of df[df[column] == token], by row number
RowsEqual(col, token) == SelectSeq([i \in DOMAIN col |-> i], LAMBDA i : col[i] = token)

\* The spellings the two columns are drawn from.
DetectadoCells == {"Si", "SI", "si", "No"}

EstadoCells == {"Abierto", "Abierta", "Cerrado", "Cerrada", "CERRADO"}

PanelInit ==
    /\ alertas_estado \in SeqsUpTo(EstadoCells, MaxCells)
    /\ eventos_detectado \in SeqsUpTo(DetectadoCells, MaxCells)
    /\ dashboard = None /\ scatter = None /\ dxf_map = None
    /\ DateOff /\ NumOff /\ StlOff /\ LoadOff /\ DxfOff /\ AppOff /\ CacheOff /\ RowsOff

\* The dashboard tab: the metrics 'Eventos Detectados' and 'Alertas Cerradas'.
DashboardMetrics ==
    /\ dashboard = None
    /\ dashboard' = [detectados |-> CountOf(eventos_detectado, "Si"),
                     cerradas |-> CountOf(alertas_estado, "Cerrado")]
    /\ UNCHANGED <<alertas_estado, eventos_detectado, scatter, dxf_map, dateVars, numVars, stlVars, loadVars, dxfVars, appVars, cacheVars, rowsVars>>

\* create_alerts_scatter: the statistics under the map.
create_alerts_scatter ==
    /\ scatter = None
    /\ alertas_estado # <<>>
    /\ scatter' = [alertas_abiertas |-> Len(RowsEqual(alertas_estado, "Abierto")),
                   alertas_cerradas |-> Len(RowsEqual(alertas_estado, "Cerrado"))]
    /\ UNCHANGED <<alertas_estado, eventos_detectado, dashboard, dxf_map, dateVars, numVars, stlVars, loadVars, dxfVars, appVars, cacheVars, rowsVars>>

\* create_dxf_with_events_map: the open and the closed alert layers.
create_dxf_with_events_map ==
    /\ dxf_map = None
    /\ alertas_estado # <<>>
    /\ dxf_map' = [alertas_abiertas |-> RowsEqual(alertas_estado, "Abierta"),
                   alertas_cerradas |-> RowsEqual(alertas_estado, "Cerrada")]
    /\ UNCHANGED <<alertas_estado, eventos_detectado, dashboard, scatter, dateVars, numVars, stlVars, loadVars, dxfVars, appVars, cacheVars, rowsVars>>

PanelNext == DashboardMetrics \/ create_alerts_scatter \/ create_dxf_with_events_map

SpecPanel == PanelInit /\ [][PanelNext]_vars

-----------------------------------------------------------------------------
(* DXFLoader (src/dxf_loader.py).  An entity of the modelspace is a record
   [type, layer, points, radius]; a point is <<x, y>>; the z coordinate, the
   colour and the derived length and area columns are left out. *)

\* msp.query(type), in document order
Query(entities, type) == SelectSeq(entities, LAMBDA e : e.type = type)

\* `if selected_layers and layer_name not in selected_layers: continue`
\* (sel is None, or Array(the set of layer names given))
Selected(sel, layer) == sel = None \/ sel.array = {} \/ layer \in sel.array

OnLayers(entities, sel) == SelectSeq(entities, LAMBDA e : Selected(sel, e.layer))

LineRow(e) ==
    [layer |-> e.layer, type |-> "LINE",
     start_x |-> e.points[1][1], start_y |-> e.points[1][2],
     end_x |-> e.points[2][1], end_y |-> e.points[2][2]]

PolylineRow(e) ==
    [layer |-> e.layer, type |-> e.type, points |-> e.points, vertices_count |-> Len(e.points)]

CircleRow(e) ==
    [layer |-> e.layer, type |-> "CIRCLE",
     center_x |-> e.points[1][1], center_y |-> e.points[1][2], radius |-> e.radius]

TextRow(e) == [layer |-> e.layer, type |-> e.type, x |-> e.points[1][1], y |-> e.points[1][2]]

\* The row an extraction appends for an entity.
RowOf(e) ==
    CASE e.type = "LINE" -> LineRow(e)
      [] e.type \in {"LWPOLYLINE", "POLYLINE"} -> PolylineRow(e)
      [] e.type = "CIRCLE" -> CircleRow(e)
      [] e.type \in {"TEXT", "MTEXT"} -> TextRow(e)

\* The rows one loop of an extraction appends.
Rows(entities, type, sel) ==
    [i \in DOMAIN OnLayers(Query(entities, type), sel) |-> RowOf(OnLayers(Query(entities, type), sel)[i])]

ExtractLines(entities, sel) == Rows(entities, "LINE", sel)

\* `if len(points) >= 2`
LongEnough(rows) == SelectSeq(rows, LAMBDA r : r.vertices_count >= 2)

ExtractPolylines(entities, sel) ==
    LongEnough(Rows(entities, "LWPOLYLINE", sel))
    \o LongEnough(Rows(entities, "POLYLINE", sel))

ExtractCircles(entities, sel) == Rows(entities, "CIRCLE", sel)

ExtractText(entities, sel) ==
    Rows(entities, "TEXT", sel) \o Rows(entities, "MTEXT", sel)

MinOf(S) == CHOOSE m \in S : \A x \in S : m <= x

MaxOf(S) == CHOOSE m \in S : \A x \in S : m >= x

\* (a variant of CircleExtent: the centre alone)
CircleExtentCentre(rows, k) == {rows[i][k] : i \in DOMAIN rows}

\* The values a circle adds to all_x (k = "center_x") or all_y ("center_y")
CircleExtent(rows, k) ==
    UNION {{rows[i][k] - rows[i].radius, rows[i][k] + rows[i].radius} : i \in DOMAIN rows}

\* all_x (c = 1) and all_y (c = 2) of get_drawing_bounds
AllCoordinates(lines, polylines, circles, c) ==
    UNION {{lines[i][IF c = 1 THEN "start_x" ELSE "start_y"],
            lines[i][IF c = 1 THEN "end_x" ELSE "end_y"]} : i \in DOMAIN lines}
    \cup CircleExtent(circles, IF c = 1 THEN "center_x" ELSE "center_y")
    \cup UNION {{polylines[i].points[j][c] : j \in DOMAIN polylines[i].points} : i \in DOMAIN polylines}

BoundsOf(xs, ys) ==
    IF xs # {} /\ ys # {}
    THEN [min_x |-> MinOf(xs), min_y |-> MinOf(ys), max_x |-> MaxOf(xs), max_y |-> MaxOf(ys)]
    ELSE None

GetDrawingBounds(entities) ==
    BoundsOf(AllCoordinates(ExtractLines(entities, None), ExtractPolylines(entities, None),
                            ExtractCircles(entities, None), 1),
             AllCoordinates(ExtractLines(entities, None), ExtractPolylines(entities, None),
                            ExtractCircles(entities, None), 2))

\* doc.layers: layer "0" and the layers the entities are on.
LayersOf(entities) == {"0"} \cup {entities[i].layer : i \in DOMAIN entities}

\* get_layers_info: entities_count per layer of the layer table (colour,
\* visibility and frozen state are left out).
GetLayersInfo(entities) ==
    [l \in LayersOf(entities) |-> Cardinality({i \in DOMAIN entities : entities[i].layer = l})]

DrawingSize(b) == IF b = None THEN None ELSE [width |-> b.max_x - b.min_x, height |-> b.max_y - b.min_y]

\* get_summary of the DXFLoader
DxfSummary(entities) ==
    [kind |-> "summary",
     layers_count |-> Cardinality(DOMAIN GetLayersInfo(entities)),
     layers |-> DOMAIN GetLayersInfo(entities),
     entities |-> [lines |-> Len(ExtractLines(entities, None)),
                   polylines |-> Len(ExtractPolylines(entities, None)),
                   circles |-> Len(ExtractCircles(entities, None)),
                   text |-> Len(ExtractText(entities, None))],
     total_entities |-> Len(ExtractLines(entities, None)) + Len(ExtractPolylines(entities, None))
                        + Len(ExtractCircles(entities, None)) + Len(ExtractText(entities, None)),
     bounds |-> GetDrawingBounds(entities),
     drawing_size |-> DrawingSize(GetDrawingBounds(entities))]

\* (a variant of BoundsField: the computed box is kept in self.bounds)
BoundsFieldCached(old, computed) == computed

\* self.bounds after get_drawing_bounds: the method returns the box and
\* assigns nothing.
BoundsField(old, computed) == old

\* The entities the drawings are made of.
Entity(type, layer, points, radius) == [type |-> type, layer |-> layer, points |-> points, radius |-> radius]

EntityPool ==
    {Entity("LINE", "A", <<<<0, 0>>, <<2, 1>>>>, 0), Entity("LINE", "B", <<<<3, 3>>, <<1, 4>>>>, 0),
     Entity("CIRCLE", "A", <<<<1, 1>>>>, 2), Entity("CIRCLE", "B", <<<<5, 6>>>>, 1),
     Entity("TEXT", "A", <<<<9, 9>>>>, 0), Entity("MTEXT", "B", <<<<-3, 0>>>>, 0),
     Entity("LWPOLYLINE", "A", <<<<0, 0>>, <<4, 6>>>>, 0), Entity("LWPOLYLINE", "B", <<<<7, 7>>>>, 0),
     Entity("POLYLINE", "B", <<<<2, 2>>, <<2, 8>>, <<-2, 3>>>>, 0)}

MaxEntities == 2

\* A file ezdxf.readfile rejects.
Rejected == [rejected |-> TRUE]

DxfFiles == {Rejected} \cup {Array(es) : es \in SeqsUpTo(EntityPool, MaxEntities)}

\* The values of selected_layers
LayerSelections == {None} \cup {Array(S) : S \in SUBSET {"A", "B"}}

DxfInit ==
    /\ doc = None /\ layers_data = <<>> /\ dxf_bounds = None
    /\ dxfOp = "new" /\ dxfSel = None /\ dxfRet = None
    /\ DateOff /\ NumOff /\ StlOff /\ LoadOff /\ PanelOff /\ AppOff /\ CacheOff /\ RowsOff

OutsideDxf == <<dateVars, numVars, stlVars, loadVars, panelVars, appVars, cacheVars, rowsVars>>

load_dxf_file ==
    /\ dxfOp # "off"
    /\ \E file \in DxfFiles :
        /\ doc' = IF file = Rejected THEN doc ELSE file
        /\ dxfRet' = [success |-> file # Rejected]
    /\ dxfOp' = "load_dxf_file" /\ dxfSel' = None
    /\ UNCHANGED <<layers_data, dxf_bounds, OutsideDxf>>

\* The table an extract_* operation builds.
ExtractedTable(op, entities, sel) ==
    CASE op = "extract_lines" -> ExtractLines(entities, sel)
      [] op = "extract_polylines" -> ExtractPolylines(entities, sel)
      [] op = "extract_circles" -> ExtractCircles(entities, sel)
      [] op = "extract_text" -> ExtractText(entities, sel)

\* An extract_* call: an empty table without a document.
Extract(op) ==
    /\ dxfOp # "off"
    /\ \E sel \in LayerSelections :
        /\ dxfSel' = sel
        /\ dxfRet' = Array(IF doc = None THEN <<>> ELSE ExtractedTable(op, doc.array, sel))
    /\ dxfOp' = op
    /\ UNCHANGED <<doc, layers_data, dxf_bounds, OutsideDxf>>

extract_lines == Extract("extract_lines")

extract_polylines == Extract("extract_polylines")

extract_circles == Extract("extract_circles")

extract_text == Extract("extract_text")

get_drawing_bounds ==
    /\ dxfOp # "off"
    /\ \E b \in {IF doc = None THEN None ELSE GetDrawingBounds(doc.array)} :
        /\ dxfRet' = b
        /\ dxf_bounds' = BoundsField(dxf_bounds, b)
    /\ dxfOp' = "get_drawing_bounds" /\ dxfSel' = None
    /\ UNCHANGED <<doc, layers_data, OutsideDxf>>

get_layers_info ==
    /\ dxfOp # "off"
    /\ dxfRet' = Array(IF doc = None THEN <<>> ELSE GetLayersInfo(doc.array))
    /\ dxfOp' = "get_layers_info" /\ dxfSel' = None
    /\ UNCHANGED <<doc, layers_data, dxf_bounds, OutsideDxf>>

dxf_get_summary ==
    /\ dxfOp # "off"
    /\ dxfRet' = IF doc = None THEN [kind |-> "empty"] ELSE DxfSummary(doc.array)
    /\ dxfOp' = "get_summary" /\ dxfSel' = None
    /\ UNCHANGED <<doc, layers_data, dxf_bounds, OutsideDxf>>

DxfNext ==
    \/ load_dxf_file \/ extract_lines \/ extract_polylines
    \/ extract_circles \/ extract_text \/ get_drawing_bounds
    \/ get_layers_info \/ dxf_get_summary

SpecDxf == DxfInit /\ [][DxfNext]_vars

-----------------------------------------------------------------------------
(* The page script (app.py, main).  One run goes through the uploads and the
   loaders, the sidebar filters, the DXF tab and the STL tab; streamlit runs
   the script again on every interaction, and st.session_state outlives the
   runs.  A table cell that may be missing is [text |-> ...] or NaN. *)

\* What an upload loader returns and logs, `got` being the processed table.
UploadOutcome(file, got) ==
    IF Lower(file.suffix) \notin ReadableSuffixes THEN [df |-> None, log |-> <<>>]
    ELSE IF ~file.readable THEN [df |-> None, log |-> <<Error>>]
    ELSE IF got.raised
    THEN [df |-> None, log |-> (IF got.missing # <<>> THEN <<Info(got.missing)>> ELSE <<>>) \o <<Error>>]
    ELSE [df |-> Array(got.table), log |-> ProcessLog(got.missing)]

LoadFromUpload(kind, file, infer) == UploadOutcome(file, ProcessTable(kind, file.table, infer))

\* (a variant of LoadFailed: both tables missing)
LoadFailedBoth(edf, adf) == edf = None /\ adf = None

\* `if eventos_df is None or alertas_df is None`
LoadFailed(edf, adf) == edf = None \/ adf = None

\* The days and times the date filter compares.
DayOf(t) == [year |-> t.year, month |-> t.month, day |-> t.day]

DayKey(t) == (t.year * 12 + t.month) * 31 + t.day

SecondKey(t) == (t.hour * 60 + t.minute) * 60 + t.second

\* pd.to_datetime(a date): its midnight
Midnight(d) == Timestamp(d.year, d.month, d.day, 0, 0, 0)

\* a <= b on timestamps
StampLeq(a, b) == DayKey(a) < DayKey(b) \/ (DayKey(a) = DayKey(b) /\ SecondKey(a) <= SecondKey(b))

\* eventos_df['Fecha'].dropna()
ValidDates(t) == IF "Fecha" \in DOMAIN t THEN {t["Fecha"][i] : i \in DOMAIN t["Fecha"]} \ {NaT} ELSE {}

\* The value of the date inputs when the column holds no valid date
\* (datetime.now().date() and the day a year before it stand outside the data).
DefaultDay == [year |-> 2026, month |-> 1, day |-> 1]

\* What a date input can hold: nothing without the column, else a day of the data.
DateChoices(t) ==
    IF "Fecha" \notin DOMAIN t THEN {None}
    ELSE IF ValidDates(t) = {} THEN {DefaultDay}
    ELSE {DayOf(x) : x \in ValidDates(t)}

\* df[c].dropna().unique()
Available(t, c) == {t[c][i] : i \in DOMAIN t[c]} \ {NaN}

\* What a multiselect can hold; the name stays undefined (None) without the column.
Selections(t, c) == IF c \notin DOMAIN t THEN {None} ELSE {Array(S) : S \in SUBSET Available(t, c)}

\* The rows of a table, by number.
RowNumbers(t) == [i \in 1..Len(t["id"]) |-> i]

DateFilter(t, rows, start, end) ==
    IF "Fecha" \in DOMAIN t /\ ValidDates(t) # {} /\ start # None /\ end # None
    THEN SelectSeq(rows, LAMBDA i : /\ t["Fecha"][i] # NaT
                                    /\ StampLeq(Midnight(start), t["Fecha"][i])
                                    /\ StampLeq(t["Fecha"][i], Midnight(end)))
    ELSE rows

\* (a variant of IsinFilter: nothing passes without the column)
IsinFilterStrict(t, rows, c, sel) ==
    IF c \in DOMAIN t
    THEN (IF sel.array # {} THEN SelectSeq(rows, LAMBDA i : t[c][i] \in sel.array) ELSE rows)
    ELSE <<>>

\* `if c in eventos_df.columns and selection:` df[df[c].isin(selection)]
IsinFilter(t, rows, c, sel) ==
    IF c \in DOMAIN t /\ sel.array # {}
    THEN SelectSeq(rows, LAMBDA i : t[c][i] \in sel.array)
    ELSE rows

\* (a variant of AlertsCopy: the date filter on the declaration date)
AlertsCopyDated(t, s) ==
    IF s.fecha_inicio = None \/ "Fecha Declarada" \notin DOMAIN t THEN RowNumbers(t)
    ELSE SelectSeq(RowNumbers(t), LAMBDA i : /\ t["Fecha Declarada"][i] # NaT
                                             /\ StampLeq(Midnight(s.fecha_inicio), t["Fecha Declarada"][i])
                                             /\ StampLeq(t["Fecha Declarada"][i], Midnight(s.fecha_fin)))

\* alertas_filtradas = alertas_df.copy(): no filter is applied to it
AlertsCopy(t, s) == RowNumbers(t)

ApplyFilters(t, s) ==
    IsinFilter(t, IsinFilter(t, DateFilter(t, RowNumbers(t), s.fecha_inicio, s.fecha_fin),
                             "Zona monitoreo", s.zonas_seleccionadas),
               "Tipo", s.tipos_seleccionados)

\* The methods an STLLoader has.
STLLoaderMethods ==
    {"load_stl_file", "load_stl_from_bytes", "load_stl_from_upload", "export_to_obj",
     "_build_geometry", "get_summary"}

\* A fresh STLLoader after load_stl_from_bytes(file), `g` being its geometry.
StlLoaderOf(file, g) == [mesh |-> file, vertices |-> g.vertices, faces |-> g.faces, bounds |-> g.bounds]

\* Whether load_stl_from_bytes(file) returns True.
StlSuccess(file) == file # None /\ file # Unreadable /\ ~BuildGeometry(file.array, None).raised

\* A fresh DXFLoader after load_dxf_from_bytes(file).
DxfLoaderOf(file) == [doc |-> file, layers_data |-> <<>>, bounds |-> None]

DxfSuccess(file) == file # None /\ file # Rejected

\* (a variant of StoreIf: the value is stored whatever the load returned)
StoreAlways(success, new, old) == new

\* `if success: st.session_state.key = value`
StoreIf(success, new, old) == IF success THEN new ELSE old

\* The files the uploaders are given.
Cell(s) == [text |-> s]

AppEventTable(present, zonas) ==
    [c \in present |->
        CASE c = "Fecha" -> <<DateText(<<"0", "1">>, "/", <<"0", "2">>, HM1430),
                              DateText(<<"1", "3">>, "/", <<"0", "2">>, <<>>)>>
          [] c = "Zona monitoreo" -> zonas
          [] c = "Tipo" -> <<Cell("Caida"), Cell("Caida")>>
          [] OTHER -> <<<<"1">>, <<"2">>>>]

AppEventTables ==
    {AppEventTable({"id"} \cup S, <<Cell("Norte"), z>>) :
        <<S, z>> \in (SUBSET {"Fecha", "Zona monitoreo", "Tipo"}) \X {Cell("Sur"), NaN}}

AppUploads(kind) ==
    {None, [suffix |-> <<".", "c", "s", "v">>, readable |-> FALSE, table |-> SampleTable(kind)]}
    \cup {[suffix |-> <<".", "x", "l", "s", "x">>, readable |-> TRUE, table |-> t] :
            t \in IF kind = "eventos" THEN AppEventTables ELSE {SampleTable(kind)}}

AppDxfFiles == {None, Rejected, Array(<<Entity("CIRCLE", "A", <<<<1, 1>>>>, 2)>>), Array(<<>>)}

AppStlFiles == {None, Unreadable, Array(<<>>), Array(<<<<P0, P1, P2>>>>), Array(<<<<P2, P1, P3>>>>)}

MaxRuns == 2

AppInit ==
    /\ appPc = "start" /\ runs = 1 /\ earlier = {} /\ session_state = NewSession /\ RunStart
    /\ inferFormat \in BOOLEAN
    /\ date_series = <<>> /\ cleaned_series = <<>> /\ result = <<>>
    /\ fmtIdx = 0 /\ datePc = "off"
    /\ NumOff /\ StlOff /\ LoadOff /\ PanelOff /\ DxfOff /\ CacheOff /\ RowsOff

OutsideApp ==
    <<dateVars, numVars, stlVars, panelVars, dxfVars, loadOp, source_file, df, missing_columns, st_error, cacheVars, rowsVars>>

\* The uploaders and the loaders: st.stop() without both files and after a
\* loader returned None.
LoadData ==
    /\ appPc = "start"
    /\ \E eu \in AppUploads("eventos"), au \in AppUploads("alertas") :
        /\ eventos_upload' = eu /\ alertas_upload' = au
        /\ IF eu = None \/ au = None
           THEN /\ shown' = {"error: Debes subir ambos archivos"}
                /\ appPc' = "stopped"
                /\ UNCHANGED <<eventos_df, alertas_df, loader_calls, log>>
           ELSE \E e \in {LoadFromUpload("eventos", eu, inferFormat)},
                   a \in {LoadFromUpload("alertas", au, inferFormat)} :
                /\ eventos_df' = e.df /\ alertas_df' = a.df
                /\ loader_calls' = 2
                /\ log' = e.log \o a.log
                /\ IF LoadFailed(e.df, a.df)
                   THEN shown' = {"error: Error al cargar los archivos subidos"} /\ appPc' = "stopped"
                   ELSE shown' = {"success: Datos cargados exitosamente"} /\ appPc' = "loaded"
    /\ UNCHANGED <<runs, earlier, sidebar, eventos_filtrados, alertas_filtradas,
                   dxf_click, stl_click, session_state, OutsideApp>>

\* The sidebar inputs and the filters.
ApplySidebar ==
    /\ appPc = "loaded"
    /\ \E start \in DateChoices(eventos_df.array), end \in DateChoices(eventos_df.array),
          zonas \in Selections(eventos_df.array, "Zona monitoreo"),
          tipos \in Selections(eventos_df.array, "Tipo") :
        \E s \in {[fecha_inicio |-> start, fecha_fin |-> end,
                    zonas_seleccionadas |-> zonas, tipos_seleccionados |-> tipos]} :
            /\ sidebar' = s
            /\ eventos_filtrados' = Array(ApplyFilters(eventos_df.array, s))
            /\ alertas_filtradas' = Array(AlertsCopy(alertas_df.array, s))
    /\ appPc' = "filtered"
    /\ UNCHANGED <<runs, earlier, eventos_upload, alertas_upload, eventos_df, alertas_df, loader_calls,
                   shown, dxf_click, stl_click, session_state, log, OutsideApp>>

\* The DXF tab: a click on 'Cargar DXF' builds a loader and stores it when
\* the load succeeds.
DxfTab ==
    /\ appPc = "filtered"
    /\ \E file \in AppDxfFiles :
        /\ dxf_click' = file
        /\ session_state' =
              [session_state EXCEPT
                 !.dxf_loader = StoreIf(DxfSuccess(file), DxfLoaderOf(file), @),
                 !.dxf_loaded = StoreIf(DxfSuccess(file), TRUE, @)]
        /\ shown' = shown \cup (IF file = None THEN {}
                                 ELSE IF DxfSuccess(file) THEN {"success: Archivo DXF cargado exitosamente"}
                                 ELSE {"error: Error al cargar el archivo DXF"})
    /\ appPc' = "dxf"
    /\ UNCHANGED <<runs, earlier, eventos_upload, alertas_upload, eventos_df, alertas_df, loader_calls,
                   sidebar, eventos_filtrados, alertas_filtradas, stl_click, log, OutsideApp>>

\* What the tab puts under a loaded mesh: the export section, or the
\* AttributeError of a call to a method the loader does not have.
StlSection(s, method) ==
    IF ~(s.stl_loaded /\ s.stl_loader # None) THEN [pc |-> "done", shown |-> {}]
    ELSE IF method \notin STLLoaderMethods THEN [pc |-> "raised", shown |-> {"exception: AttributeError"}]
    ELSE [pc |-> "done",
          shown |-> (IF ExportToObj(s.stl_loader.mesh) # None THEN {"download: Descargar como OBJ"} ELSE {})
                    \cup (IF s.stl_original_bytes # None THEN {"download: Descargar STL original"} ELSE {})]

\* The STL tab: a click on 'Cargar STL', then the summary, the figure and
\* the export section of the loaded mesh.
StlTab ==
    /\ appPc = "dxf"
    /\ \E file \in AppStlFiles :
        /\ stl_click' = file
        /\ \E s \in {[session_state EXCEPT
                         !.stl_loader = StoreIf(StlSuccess(file),
                                                IF StlSuccess(file)
                                                THEN StlLoaderOf(file, BuildGeometry(file.array, None))
                                                ELSE None, @),
                         !.stl_loaded = StoreIf(StlSuccess(file), TRUE, @),
                         !.stl_original_bytes = StoreIf(StlSuccess(file), file, @)]} :
            /\ session_state' = s
            /\ appPc' = StlSection(s, "export_as_obj").pc
            /\ shown' = shown \cup (IF file = None THEN {}
                                     ELSE IF StlSuccess(file) THEN {"success: Archivo STL cargado exitosamente"}
                                     ELSE {"error: Error al cargar el archivo STL"})
                               \cup StlSection(s, "export_as_obj").shown
    /\ UNCHANGED <<runs, earlier, eventos_upload, alertas_upload, eventos_df, alertas_df, loader_calls,
                   sidebar, eventos_filtrados, alertas_filtradas, dxf_click, log, OutsideApp>>

\* An interaction: streamlit runs the script again from the top.
Rerun ==
    /\ appPc \in {"stopped", "done", "raised"}
    /\ runs < MaxRuns
    /\ runs' = runs + 1
    /\ earlier' = earlier \cup shown
    /\ appPc' = "start"
    /\ eventos_upload' = None /\ alertas_upload' = None
    /\ eventos_df' = None /\ alertas_df' = None
    /\ loader_calls' = 0 /\ shown' = {} /\ sidebar' = None
    /\ eventos_filtrados' = None /\ alertas_filtradas' = None
    /\ dxf_click' = None /\ stl_click' = None /\ log' = <<>>
    /\ UNCHANGED <<session_state, OutsideApp>>

AppNext == LoadData \/ ApplySidebar \/ DxfTab \/ StlTab \/ Rerun

SpecApp == AppInit /\ [][AppNext]_vars

-----------------------------------------------------------------------------
(* Claims about the date parser *)

\* The first of the first k formats that reads the cleaned cell s, 0 when none does.
FirstFormat(s, k) ==
    LET hits == {j \in 1..k : Strptime(s, formats_to_try[j]) # NaT}
    IN  IF hits = {} THEN 0 ELSE CHOOSE j \in hits : \A h \in hits : j <= h

\* How many formats of the list have been applied so far.
FormatsApplied ==
    IF datePc = "formats" THEN fmtIdx - 1
    ELSE IF datePc \in {"fallback", "done", "raised"} THEN Len(formats_to_try) ELSE 0

\* C1: every cell's result is the one the first format of the list that reads
\* it produced, once that format has been applied, and no later format nor
\* the day-first fallback ever changes a result that is not null.
C1_FirstFormatWins ==
    /\ [](\A i \in DOMAIN result :
            LET k == FirstFormat(cleaned_series[i], FormatsApplied)
            IN  k # 0 => result[i] = Strptime(cleaned_series[i], formats_to_try[k]))
    /\ [][\A i \in DOMAIN result :
            result[i] # NaT => i \in DOMAIN result' /\ result'[i] = result[i]]_vars

\* C1 witness: the parser has finished a column in which one cell was read by
\* an explicit format and another only by the fallback that ran after it.
C1_Witness ==
    /\ datePc = "done"
    /\ \E i, j \in DOMAIN result :
          /\ FirstFormat(cleaned_series[i], Len(formats_to_try)) \in 1..2
          /\ FirstFormat(cleaned_series[j], Len(formats_to_try)) = 0
          /\ result[i] # NaT /\ result[j] # NaT

\* dd/mm/yyyy[ HH:MM] or dd-mm-yyyy[ HH:MM], two digits each.
DayFirstShape(s) ==
    LET f == DateFields(s)
    IN  /\ f.ok
        /\ f.alen = 2 /\ f.blen = 2 /\ f.ylen = 4
        /\ f.sep1 \in DateSeparators /\ f.sep2 = f.sep1
        /\ f.time.kind \in {"none", "HM"}

\* The day-first reading of a cell of that shape, NaT when it is no calendar date/time.
DayFirstReading(s) ==
    LET f == DateFields(s)
    IN  IF ValidDate(f.y, f.b, f.a) /\ ValidTime(f.time)
        THEN Timestamp(f.y, f.b, f.a, f.time.H, f.time.M, 0)
        ELSE NaT

\* C2: a cell of shape dd/mm/yyyy[ HH:MM] or dd-mm-yyyy[ HH:MM] ends as its
\* day-first reading when that is a calendar date/time and as null otherwise,
\* never as the month-first reading.
C2_DayFirstOrNull ==
    datePc = "done" =>
        \A i \in DOMAIN date_series :
            DayFirstShape(date_series[i]) => result[i] = DayFirstReading(date_series[i])

IsTimestamp(t) ==
    /\ DOMAIN t = {"year", "month", "day", "hour", "minute", "second"}
    /\ ValidDate(t.year, t.month, t.day)
    /\ t.hour \in 0..23 /\ t.minute \in 0..59 /\ t.second \in 0..59

\* What the parser gives the cell when it is the only cell of its column.
AloneReading(s) == ParseDateFlexible(<<s>>, inferFormat).values[1]

\* C3: the parser never raises; it ends with one result per input cell, each a
\* timestamp or the null marker, and a cell keeps the result it has on its own
\* whenever the other cells of the column are unparseable or read by an
\* explicit format.
C3_NeverFails ==
    /\ datePc # "raised"
    /\ datePc = "done" =>
          /\ Len(result) = Len(date_series)
          /\ \A i \in DOMAIN date_series :
                /\ result[i] = NaT \/ IsTimestamp(result[i])
                /\ (\A j \in DOMAIN date_series \ {i} :
                       \/ AloneReading(date_series[j]) = NaT
                       \/ FirstFormat(CleanCell(date_series[j]), Len(formats_to_try)) # 0)
                   => result[i] = AloneReading(date_series[i])

\* C3 witness: a finished column whose first cell is unparseable text and
\* whose second cell was parsed all the same.
C3_Witness ==
    /\ datePc = "done"
    /\ Len(date_series) >= 2
    /\ date_series[1] \notin NullStrings /\ result[1] = NaT
    /\ result[2] # NaT

-----------------------------------------------------------------------------
(* Claims about the numeric parser *)

\* The pipeline as specified: trim, ',' to '.', delete all but digits, '.' and
\* '-', parse.
SpecifiedNumeric(s) ==
    ParseFloat(DeleteOutside(ReplaceChar(Strip(s), ",", "."), Digits \cup {".", "-"}))

Chars(s) == {s[i] : i \in DOMAIN s}

\* C4: clean_numeric_column returns, cell by cell, what the specified
\* pipeline returns, and never takes its except branch: the order of the
\* deletion and the replacement changes no result, and a cell that is no
\* number becomes null.
C4_SameAsSpecified ==
    /\ numPc # "failed"
    /\ numPc = "done" =>
          /\ Len(cleaned) = Len(series)
          /\ \A i \in DOMAIN series : cleaned[i] = SpecifiedNumeric(series[i])

\* C4 witness: a cleaned column with a cell that holds a comma and a stray
\* symbol and became a number, and a cell that became null.
C4_Witness ==
    /\ numPc = "done"
    /\ \E i, j \in DOMAIN series :
          /\ "," \in Chars(series[i]) /\ Chars(series[i]) \ NumericKeep # {}
          /\ cleaned[i] # NaN
          /\ series[j] # <<>> /\ cleaned[j] = NaN

\* digits ',' digits, with an optional minus sign in front
IsCommaDecimal(t) ==
    LET start == IF t # <<>> /\ Head(t) = "-" THEN 2 ELSE 1
        n1 == RunLen(t, start)
        p == start + n1
        n2 == RunLen(t, p + 1)
    IN  n1 >= 1 /\ p <= Len(t) /\ t[p] = "," /\ n2 >= 1 /\ p + n2 = Len(t)

CommaDecimalValue(t) ==
    LET start == IF Head(t) = "-" THEN 2 ELSE 1
        n1 == RunLen(t, start)
        n2 == Len(t) - start - n1
        mag == Num(t, start, n1) * Pow10(n2) + Num(t, start + n1 + 1, n2)
    IN  Decimal(IF start = 2 THEN 0 - mag ELSE mag, n2)

\* The places <<i, j>> of s that hold a comma-decimal numeral (with its sign)
\* while no character around it is in `barred`.
NumeralPlaces(s, barred) ==
    {ij \in (DOMAIN s) \X (DOMAIN s) :
        /\ ij[1] <= ij[2]
        /\ IsCommaDecimal(SubSeq(s, ij[1], ij[2]))
        /\ (ij[1] > 1 => s[ij[1] - 1] # "-")
        /\ \A k \in DOMAIN s : (k < ij[1] \/ k > ij[2]) => s[k] \notin barred}

SeparatorCount(s) == Cardinality({i \in DOMAIN s : s[i] \in {".", ","}})

\* C5 as stated: a comma-decimal numeral becomes its value whatever non-digit
\* symbols surround it, and a cell with more than one separator becomes null.
C5_CommaDecimalAnySymbols ==
    numPc = "done" =>
        \A i \in DOMAIN series :
            /\ \A ij \in NumeralPlaces(series[i], Digits) :
                  cleaned[i] = CommaDecimalValue(SubSeq(series[i], ij[1], ij[2]))
            /\ SeparatorCount(series[i]) >= 2 => cleaned[i] = NaN

\* C5 amended: a comma-decimal numeral becomes its value when the symbols
\* around it are neither digits nor '.', ',' or '-', and a cell with more than
\* one separator becomes null.
C5_CommaDecimal ==
    numPc = "done" =>
        \A i \in DOMAIN series :
            /\ \A ij \in NumeralPlaces(series[i], NumericKeep) :
                  cleaned[i] = CommaDecimalValue(SubSeq(series[i], ij[1], ij[2]))
            /\ SeparatorCount(series[i]) >= 2 => cleaned[i] = NaN

\* C5 witness: a cleaned column with a comma-decimal numeral between other
\* symbols, now its value, and a cell with two separators, now null.
C5_Witness ==
    /\ numPc = "done"
    /\ \E i, j \in DOMAIN series :
          /\ \E ij \in NumeralPlaces(series[i], NumericKeep) :
                /\ ij[1] > 1 /\ ij[2] < Len(series[i])
                /\ cleaned[i] = CommaDecimalValue(SubSeq(series[i], ij[1], ij[2]))
          /\ SeparatorCount(series[j]) >= 2 /\ cleaned[j] = NaN

-----------------------------------------------------------------------------
(* Claims about the mesh loader *)

LoadedOk == stlOp = "load" /\ stlRet = TRUE

RepeatsCorner(vectors) ==
    \E i, j \in DOMAIN Corners(vectors) : i # j /\ Corners(vectors)[i] = Corners(vectors)[j]

\* C9: after a successful load the vertex list holds no coordinate triple
\* twice (and is shorter than the corner list when the soup repeats a
\* corner), there is one face per triangle, and every face index is a valid
\* 0-based index of the vertex that equals the triangle's corner.
C9_IndexedMesh ==
    LoadedOk =>
        LET vs == vertices.array
            fs == faces.array
            soup == mesh.array
        IN  /\ \A i, j \in DOMAIN vs : i # j => vs[i] # vs[j]
            /\ Len(vs) <= 3 * Len(soup)
            /\ RepeatsCorner(soup) => Len(vs) < 3 * Len(soup)
            /\ Len(fs) = Len(soup)
            /\ \A t \in DOMAIN soup : \A c \in 1..3 :
                  /\ fs[t][c] \in 0..(Len(vs) - 1)
                  /\ vs[fs[t][c] + 1] = soup[t][c]

\* C9 witness: a loaded soup of two triangles that share corners, whose
\* first corner is not the first vertex.
C9_Witness ==
    /\ LoadedOk
    /\ Len(mesh.array) = 2
    /\ RepeatsCorner(mesh.array)
    /\ Len(vertices.array) >= 4
    /\ faces.array[1][1] # 0

VLines(lines) == {n \in DOMAIN lines : lines[n].kind = "v"}

FLines(lines) == {n \in DOMAIN lines : lines[n].kind = "f"}

\* C10: export_to_obj of None is None; of a mesh, every vertex line comes
\* before every face line, there is one face line per triangle, and each of
\* its indices is 1-based: it lies in 1..(number of vertex lines) and names
\* the vertex line that holds the triangle's corner.
C10_ObjExport ==
    stlOp = "export" =>
        IF mesh_data = None THEN stlRet = None
        ELSE /\ stlRet # None
             /\ LET lines == stlRet.array
                    nv == Cardinality(VLines(lines))
                    soup == mesh_data.array
                IN  /\ VLines(lines) = 1..nv
                    /\ FLines(lines) = (nv + 1)..Len(lines)
                    /\ Len(lines) - nv = Len(soup)
                    /\ \A t \in DOMAIN soup :
                          LET f == lines[nv + t]
                              idx == <<f.i, f.j, f.k>>
                          IN  \A c \in 1..3 :
                                 /\ idx[c] \in 1..nv
                                 /\ lines[idx[c]] = VertexLine(soup[t][c])

\* C10 witness: the export of a loaded mesh of two triangles, with a face
\* line that names the last vertex line.
C10_Witness ==
    /\ stlOp = "export"
    /\ mesh_data # None
    /\ Len(mesh_data.array) = 2
    /\ LET lines == stlRet.array
           nv == Cardinality(VLines(lines))
       IN  nv >= 3 /\ \E n \in FLines(lines) : lines[n].k = nv

\* The loader holds a mesh whose load succeeded.
HoldsLoadedMesh == mesh # None /\ mesh.array # <<>>

\* C11: for every loaded mesh, the numbers of 'v' and 'f' lines of its OBJ
\* export are the vertex and face counts of the loader's deduplicated
\* geometry, which are the counts get_summary reports.
C11_CountRoundTrip ==
    HoldsLoadedMesh =>
        /\ (stlOp = "export" /\ mesh_data = mesh) =>
              /\ Cardinality(VLines(stlRet.array)) = Len(vertices.array)
              /\ Cardinality(FLines(stlRet.array)) = Len(faces.array)
        /\ stlOp = "summary" =>
              /\ stlRet.kind = "summary"
              /\ stlRet.vertices_count = Cardinality(VLines(ExportToObj(mesh).array))
              /\ stlRet.faces_count = Cardinality(FLines(ExportToObj(mesh).array))

\* C11 witness: the summary of a loaded mesh of two triangles that share
\* corners, so that the counts differ from the raw corner count.
C11_Witness ==
    /\ HoldsLoadedMesh
    /\ stlOp = "summary"
    /\ Len(mesh.array) = 2
    /\ stlRet.vertices_count \in 3..5
    /\ stlRet.faces_count = 2

-----------------------------------------------------------------------------
(* Claims about the loaders *)

KindOf(op) == IF op \in {"load_eventos", "load_eventos_from_filelike"} THEN "eventos" ELSE "alertas"

IsUpload(op) == op \in {"load_eventos_from_filelike", "load_alertas_from_filelike"}

\* The loader got as far as a table: the file was there, of a supported
\* suffix, and the reader read it.
TableRead ==
    /\ loadOp \in {"load_eventos", "load_alertas", "load_eventos_from_filelike", "load_alertas_from_filelike"}
    /\ source_file.readable
    /\ IF IsUpload(loadOp) THEN Lower(source_file.suffix) \in ReadableSuffixes ELSE source_file.exists

Range(q) == {q[i] : i \in DOMAIN q}

\* C6: each of the four load operations loads a comma-decimal cell of a
\* numeric column as its value.
C6_CommaDecimalLoaded ==
    (TableRead /\ df # None) =>
        \A c \in DOMAIN df.array \cap NumericColumns(KindOf(loadOp)) :
            \A i \in DOMAIN source_file.table[c] :
                IsCommaDecimal(source_file.table[c][i])
                    => df.array[c][i] = CommaDecimalValue(source_file.table[c][i])

IsNumber(v) == DOMAIN v = {"mant", "scale"}

\* C7: whatever critical columns the table lacks, the load returns a table
\* with exactly the columns that were there; the missing ones are reported in
\* an info message and nothing is reported as an error; the date and numeric
\* columns that are there are processed and the other columns are as read.
C7_MissingColumnsTolerated ==
    TableRead =>
        /\ df # None
        /\ DOMAIN df.array = DOMAIN source_file.table
        /\ ~st_error
        /\ \A n \in DOMAIN log : log[n].level = "info"
        /\ missing_columns # <<>> => \E n \in DOMAIN log : log[n] = Info(missing_columns)
        /\ \A c \in DOMAIN source_file.table :
              LET old == source_file.table[c]
                  new == df.array[c]
              IN  /\ Len(new) = Len(old)
                  /\ IF c \in DateColumns(KindOf(loadOp))
                     THEN \A i \in DOMAIN new : new[i] = NaT \/ IsTimestamp(new[i])
                     ELSE IF c \in NumericColumns(KindOf(loadOp))
                     THEN \A i \in DOMAIN new : new[i] = NaN \/ IsNumber(new[i])
                     ELSE new = old

\* C7 witness: an upload without 'Fecha' and without 'Este' was loaded, and
\* its 'Fecha UTC' and 'Norte' columns were processed.
C7_Witness ==
    /\ loadOp = "load_eventos_from_filelike"
    /\ TableRead
    /\ df # None
    /\ {"Fecha", "Este"} \subseteq Range(missing_columns)
    /\ {"Fecha UTC", "Norte"} \subseteq DOMAIN df.array
    /\ IsTimestamp(df.array["Fecha UTC"][1])

ClaimedCritical(kind) ==
    IF kind = "eventos"
    THEN {"id", "Tipo", "Vigilante", "Fecha", "Zona monitoreo", "Pared", "Este", "Norte", "Cota",
          "Alerta de Seguridad Asociada"}
    ELSE {"id", "Estatus", "Vigilante", "Fecha Declarada", "Evento", "Comportamiento o Velocidad",
          "Nivel de Exposición", "Zona de Monitoreo", "Localización General", "Pared"}

CheckedCritical(kind) ==
    IF kind = "eventos"
    THEN {"id", "Tipo", "Vigilante", "Fecha", "Fecha UTC", "Zona monitoreo", "Pared", "Este", "Norte",
          "Cota"}
    ELSE {"id", "Estatus", "Vigilante", "Fecha Declarada", "Fecha Declarada UTC", "Evento",
          "Comportamiento o Velocidad", "Nivel de Exposición", "Versión Original", "Zona de Monitoreo"}

\* C8 as stated: the columns reported missing are those of the specified
\* critical lists (with 'Alerta de Seguridad Asociada', 'Localización General'
\* and 'Pared', without the UTC dates and 'Versión Original') that the table
\* lacks.
C8_SpecifiedCriticalList ==
    TableRead => Range(missing_columns) = ClaimedCritical(KindOf(loadOp)) \ DOMAIN source_file.table

\* C8 amended: the columns reported missing are those of the first ten
\* expected columns that the table lacks: for events id, Tipo, Vigilante,
\* Fecha, Fecha UTC, Zona monitoreo, Pared, Este, Norte, Cota; for alerts id,
\* Estatus, Vigilante, Fecha Declarada, Fecha Declarada UTC, Evento,
\* Comportamiento o Velocidad, Nivel de Exposición, Versión Original, Zona de
\* Monitoreo; a notice is logged exactly when one of them is missing.
C8_CheckedCriticalList ==
    TableRead =>
        /\ Range(missing_columns) = CheckedCritical(KindOf(loadOp)) \ DOMAIN source_file.table
        /\ (missing_columns # <<>>) <=> (\E n \in DOMAIN log : log[n].event = "missing")
        /\ \A n \in DOMAIN log : log[n].event = "missing" => log[n] = Info(missing_columns)

\* C8 witness: an events table without 'Fecha UTC' and without 'Alerta de
\* Seguridad Asociada' was loaded, and only 'Fecha UTC' was reported.
C8_Witness ==
    /\ TableRead
    /\ KindOf(loadOp) = "eventos"
    /\ {"Fecha UTC", "Alerta de Seguridad Asociada"} \cap DOMAIN source_file.table = {}
    /\ missing_columns = <<"Fecha UTC">>

\* A text with its capital letters made small.
FoldCase(s) ==
    LET capitals == <<"A", "B", "C", "D", "E", "F", "G", "H", "I", "J", "K", "L", "M",
                      "N", "O", "P", "Q", "R", "S", "T", "U", "V", "W", "X", "Y", "Z">>
        smalls == <<"a", "b", "c", "d", "e", "f", "g", "h", "i", "j", "k", "l", "m",
                    "n", "o", "p", "q", "r", "s", "t", "u", "v", "w", "x", "y", "z">>
    IN  [i \in DOMAIN s |->
            IF \E n \in 1..26 : capitals[n] = s[i]
            THEN smalls[CHOOSE n \in 1..26 : capitals[n] = s[i]]
            ELSE s[i]]

ClaimedExtensions ==
    {<<".", "x", "l", "s", "x">>, <<".", "x", "l", "s">>, <<".", "c", "s", "v">>, <<".", "t", "x", "t">>}

\* C15: an upload whose extension, compared without regard to case, is none
\* of .xlsx, .xls, .csv, .txt is aborted: a user-facing error, None returned,
\* and nothing read, checked, parsed, coerced or logged.
C15_UnsupportedExtensionAborts ==
    (IsUpload(loadOp) /\ FoldCase(source_file.suffix) \notin ClaimedExtensions) =>
        /\ df = None
        /\ st_error = TRUE
        /\ missing_columns = <<>>
        /\ log = <<>>

\* C15 witness: a readable upload named *.pdf was aborted, and one named
\* *.XLSX is not among the aborted ones.
C15_Witness ==
    /\ IsUpload(loadOp)
    /\ source_file.suffix = <<".", "p", "d", "f">>
    /\ source_file.readable
    /\ df = None /\ st_error = TRUE /\ log = <<>>

\* The spellings of yes, open and closed.
YesVariants == {"Si", "SI", "si"}

OpenVariants == {"Abierto", "Abierta"}

ClosedVariants == {"Cerrado", "Cerrada", "CERRADO"}

VariantRows(col, variants) == SelectSeq([i \in DOMAIN col |-> i], LAMBDA i : col[i] \in variants)

\* C17: every spelling of yes, open and closed is counted or selected: the
\* metrics 'Eventos Detectados' and 'Alertas Cerradas' count all variants,
\* the open and closed alert layers of the map hold all variants, and the
\* panels agree on which alerts are open and which are closed.
C17_VariantsNormalized ==
    /\ dashboard # None =>
          /\ dashboard.detectados = Len(VariantRows(eventos_detectado, YesVariants))
          /\ dashboard.cerradas = Len(VariantRows(alertas_estado, ClosedVariants))
    /\ dxf_map # None =>
          /\ dxf_map.alertas_abiertas = VariantRows(alertas_estado, OpenVariants)
          /\ dxf_map.alertas_cerradas = VariantRows(alertas_estado, ClosedVariants)
    /\ (scatter # None /\ dxf_map # None) =>
          /\ scatter.alertas_abiertas = Len(dxf_map.alertas_abiertas)
          /\ scatter.alertas_cerradas = Len(dxf_map.alertas_cerradas)

-----------------------------------------------------------------------------
(* Claims about the mesh loader's metrics and fields *)

\* What a summary that degrades holds for a loader with geometry.
DegradedSummary ==
    /\ stlRet.kind = "summary"
    /\ stlRet.vertices_count = Len(vertices.array)
    /\ stlRet.faces_count = Len(faces.array)
    /\ stlMetrics.mass => (stlRet.volume = None /\ stlRet.center_of_gravity = None)
    /\ (stlMetrics.areas /\ stlMetrics.cross) => stlRet.surface_area = None

\* C22: mesh metrics degrade instead of failing: a metric that cannot be
\* computed is reported as None while get_summary still returns the vertex
\* count, the face count, the bounds and the size; for any mesh the parser
\* accepts (one with zero triangles included) the load returns True and
\* get_summary does not raise.
C22_MetricsDegrade ==
    /\ []((stlOp = "summary" /\ vertices # None /\ faces # None) => DegradedSummary)
    /\ [][(stlOp' = "load" /\ mesh' # mesh) => stlRet' = TRUE]_vars

\* The corner points of the stored mesh.
CornerSet == {mesh.array[t][k] : <<t, k>> \in (DOMAIN mesh.array) \X (1..3)}

\* The geometry and the bounds are those of the stored mesh.
OfStoredMesh ==
    /\ mesh # None /\ vertices # None /\ faces # None /\ bounds # None
    /\ {vertices.array[i] : i \in DOMAIN vertices.array} = CornerSet
    /\ Len(faces.array) = Len(mesh.array)
    /\ CornerSet # {}
    /\ \A c \in 1..3 :
          /\ bounds.array[c] = MinOf({p[c] : p \in CornerSet})
          /\ bounds.array[c + 3] = MaxOf({p[c] : p \in CornerSet})

\* C30: after any sequence of loads on one STLLoader, successful or not,
\* the fields mesh, vertices, faces and bounds are all None or all derived
\* from the same file.
C30_FieldsOfOneFile ==
    stlOp # "off" =>
        \/ (mesh = None /\ vertices = None /\ faces = None /\ bounds = None)
        \/ OfStoredMesh

-----------------------------------------------------------------------------
(* Claims about the DXF loader *)

\* The loaded drawing holds one entity, a circle.
OnlyACircle == doc # None /\ Len(doc.array) = 1 /\ doc.array[1].type = "CIRCLE"

\* C19: for a drawing whose only entity is one CIRCLE with centre (cx, cy)
\* and radius r, extract_lines returns an empty table, extract_circles
\* returns exactly one row, that circle's, and get_drawing_bounds returns
\* (cx-r, cy-r, cx+r, cy+r).
C19_SingleCircle ==
    (OnlyACircle /\ dxfSel = None) =>
        /\ dxfOp = "extract_lines" => dxfRet.array = <<>>
        /\ dxfOp = "extract_circles" =>
              /\ Len(dxfRet.array) = 1
              /\ dxfRet.array[1].center_x = doc.array[1].points[1][1]
              /\ dxfRet.array[1].center_y = doc.array[1].points[1][2]
              /\ dxfRet.array[1].radius = doc.array[1].radius
              /\ dxfRet.array[1].layer = doc.array[1].layer
        /\ dxfOp = "get_drawing_bounds" =>
              dxfRet = [min_x |-> doc.array[1].points[1][1] - doc.array[1].radius,
                        min_y |-> doc.array[1].points[1][2] - doc.array[1].radius,
                        max_x |-> doc.array[1].points[1][1] + doc.array[1].radius,
                        max_y |-> doc.array[1].points[1][2] + doc.array[1].radius]

C19_Witness ==
    /\ OnlyACircle /\ dxfOp = "get_drawing_bounds"
    /\ dxfRet # None /\ dxfRet.min_x < 0 /\ dxfRet.max_y = 3

\* The corner points the extracted rows of a drawing occupy.
RowPoints(lines, polylines, circles, texts) ==
    UNION {{<<lines[i].start_x, lines[i].start_y>>, <<lines[i].end_x, lines[i].end_y>>} : i \in DOMAIN lines}
    \cup UNION {{<<polylines[i].points[j][1], polylines[i].points[j][2]>> : j \in DOMAIN polylines[i].points}
                : i \in DOMAIN polylines}
    \cup UNION {{<<circles[i].center_x - circles[i].radius, circles[i].center_y - circles[i].radius>>,
                 <<circles[i].center_x + circles[i].radius, circles[i].center_y + circles[i].radius>>}
                : i \in DOMAIN circles}
    \cup {<<texts[i].x, texts[i].y>> : i \in DOMAIN texts}

ExtractedPoints ==
    RowPoints(ExtractLines(doc.array, None), ExtractPolylines(doc.array, None),
              ExtractCircles(doc.array, None), ExtractText(doc.array, None))

\* C20: get_drawing_bounds aggregates the extremes across all extracted
\* tables: every coordinate of every extracted entity (line endpoints,
\* polyline vertices, circle centre plus and minus radius, text insert
\* points) lies inside the returned box, and None is returned only when no
\* entity at all is extracted.
C20_BoundsCoverAll ==
    (dxfOp = "get_drawing_bounds" /\ doc # None) =>
        IF dxfRet = None THEN ExtractedPoints = {}
        ELSE \A p \in ExtractedPoints :
                /\ dxfRet.min_x <= p[1] /\ p[1] <= dxfRet.max_x
                /\ dxfRet.min_y <= p[2] /\ p[2] <= dxfRet.max_y

-----------------------------------------------------------------------------
(* Claims about the page script *)

\* The STL tab has been rendered in this run.
StlTabRendered == appPc \in {"done", "raised"}

\* C12: after a successful STL load, every run of the STL tab reaches the
\* export section and offers both downloads, the mesh as OBJ and the
\* original STL bytes, and never ends in an unhandled error.
C12_ExportOffered ==
    (StlTabRendered /\ session_state.stl_loaded /\ session_state.stl_loader # None) =>
        /\ appPc = "done"
        /\ "download: Descargar como OBJ" \in shown
        /\ "download: Descargar STL original" \in shown
        /\ "exception: AttributeError" \notin shown

\* The files the DXF and the STL parser reject (a mesh without triangles has
\* no geometry to build).
DxfRejected(file) == file = Rejected

StlRejected(file) == file = Unreadable \/ file = Array(<<>>)

\* C13: a failed DXF or STL load leaves the session as it was (the stored
\* loader, the loaded flag and the stored original bytes), shows an error
\* message, and no loader built from a rejected file is ever stored.
C13_FailedLoadKeepsSession ==
    /\ [](/\ (session_state.dxf_loader # None => ~DxfRejected(session_state.dxf_loader.doc))
          /\ (session_state.stl_loader # None => ~StlRejected(session_state.stl_loader.mesh))
          /\ (session_state.stl_original_bytes # None => ~StlRejected(session_state.stl_original_bytes)))
    /\ [][((appPc = "filtered" /\ appPc' = "dxf" /\ DxfRejected(dxf_click')) =>
               /\ session_state' = session_state
               /\ "error: Error al cargar el archivo DXF" \in shown'
               /\ "success: Archivo DXF cargado exitosamente" \notin shown')
          /\ ((appPc = "dxf" /\ StlTabRendered' /\ StlRejected(stl_click')) =>
               /\ session_state' = session_state
               /\ "error: Error al cargar el archivo STL" \in shown'
               /\ "success: Archivo STL cargado exitosamente" \notin shown')]_vars

\* A load succeeds in a session where an earlier load of each kind failed
\* and where a loader was already stored when the failure happened.
C13_Witness ==
    /\ StlTabRendered
    /\ "error: Error al cargar el archivo STL" \in earlier
    /\ "error: Error al cargar el archivo DXF" \in earlier
    /\ "success: Archivo STL cargado exitosamente" \in shown
    /\ "success: Archivo DXF cargado exitosamente" \in shown

\* The run has left the loading section.
PastLoading == appPc # "start"

BothUploaded == eventos_upload # None /\ alertas_upload # None

HaltMessages == {"error: Debes subir ambos archivos", "error: Error al cargar los archivos subidos"}

\* A failure the loaders meet: a file that cannot be read.
CannotBeLoaded == BothUploaded /\ (~eventos_upload.readable \/ ~alertas_upload.readable)

\* C14 as stated: the flow halts with a message exactly when the uploads are
\* not both present, and before any loader is called; a file that cannot be
\* loaded does not halt it.
C14_HaltsOnlyWithoutUploads ==
    PastLoading =>
        /\ appPc = "stopped" <=> ~BothUploaded
        /\ appPc = "stopped" => (loader_calls = 0 /\ shown \cap HaltMessages # {})

\* C14, amended: the flow halts with a message exactly when the uploads are
\* not both present (before any loader is called) or a loader returned no
\* table (after both loaders were called); otherwise the run continues to
\* the filters and tabs.
C14_HaltsWithoutUploadsOrTables ==
    PastLoading =>
        /\ appPc = "stopped" <=> (~BothUploaded \/ eventos_df = None \/ alertas_df = None)
        /\ appPc = "stopped" => shown \cap HaltMessages # {}
        /\ ~BothUploaded => (loader_calls = 0 /\ eventos_df = None /\ alertas_df = None)
        /\ BothUploaded => loader_calls = 2
        /\ CannotBeLoaded => appPc = "stopped"
        /\ appPc # "stopped" => (eventos_filtrados # None <=> appPc # "loaded")

C14_Witness ==
    /\ appPc = "stopped" /\ CannotBeLoaded /\ loader_calls = 2
    /\ eventos_df # None /\ alertas_df = None

\* The uploaded events file is read and lacks the zone column.
LacksZone ==
    /\ PastLoading /\ BothUploaded
    /\ eventos_upload.readable /\ alertas_upload.readable
    /\ "Zona monitoreo" \notin DOMAIN eventos_upload.table

NoticeOf(level) ==
    \E i \in DOMAIN log :
        log[i].level = level /\ \E j \in DOMAIN log[i].columns : log[i].columns[j] = "Zona monitoreo"

InDays(t, i, s) ==
    ("Fecha" \in DOMAIN t /\ ValidDates(t) # {}) =>
        /\ t["Fecha"][i] # NaT
        /\ StampLeq(Midnight(s.fecha_inicio), t["Fecha"][i])
        /\ StampLeq(t["Fecha"][i], Midnight(s.fecha_fin))

InTypes(t, i, s) ==
    ("Tipo" \in DOMAIN t /\ s.tipos_seleccionados.array # {}) => t["Tipo"][i] \in s.tipos_seleccionados.array

TypesOf(op) ==
    CASE op = "extract_lines" -> {"LINE"}
      [] op = "extract_polylines" -> {"LWPOLYLINE", "POLYLINE"}
      [] op = "extract_circles" -> {"CIRCLE"}
      [] op = "extract_text" -> {"TEXT", "MTEXT"}

ExtractOps == {"extract_lines", "extract_polylines", "extract_circles", "extract_text"}

\* The entities of the drawing an extraction is about, on the layers of S
\* (a polyline of fewer than two points is no polyline).
EntitiesOn(op, S) ==
    {i \in DOMAIN doc.array :
        /\ doc.array[i].type \in TypesOf(op)
        /\ doc.array[i].layer \in S
        /\ (op = "extract_polylines" => Len(doc.array[i].points) >= 2)}

\* C21: each extract_* operation filters by the given set of layer names:
\* for every set S given, the table holds exactly the entities of the type
\* whose layer is in S (an empty S gives an empty table), and only without
\* a set (None) the entities of all layers are returned.
C21_FilterByLayers ==
    (dxfOp \in ExtractOps /\ doc # None) =>
        IF dxfSel = None
        THEN Len(dxfRet.array) = Cardinality(EntitiesOn(dxfOp, {"0", "A", "B"}))
        ELSE /\ Len(dxfRet.array) = Cardinality(EntitiesOn(dxfOp, dxfSel.array))
             /\ \A k \in DOMAIN dxfRet.array : dxfRet.array[k].layer \in dxfSel.array

\* The operations that read the drawing.
ReadOps == ExtractOps \cup {"get_layers_info", "get_drawing_bounds", "get_summary"}

\* C25: every extract_* call, get_layers_info, get_drawing_bounds and
\* get_summary leaves the loader unchanged (doc, layers_data, bounds), and
\* its result depends only on the loaded document and the selected layers:
\* the same call made again, whatever was called before it, gives the same
\* result, the one a call right after the load gives.
C25_ReadsLeaveLoaderUnchanged ==
    /\ [][dxfOp' \in ReadOps =>
            /\ doc' = doc /\ layers_data' = layers_data /\ dxf_bounds' = dxf_bounds
            /\ (dxfOp = dxfOp' /\ dxfSel = dxfSel') => dxfRet' = dxfRet]_vars
    /\ [](/\ dxf_bounds = None /\ layers_data = <<>>
          /\ (dxfOp \in ExtractOps /\ doc # None) =>
                dxfRet = Array(ExtractedTable(dxfOp, doc.array, dxfSel))
          /\ (dxfOp = "get_drawing_bounds" /\ doc # None /\ dxfRet # None) =>
                dxfRet.max_x - dxfRet.min_x = DxfSummary(doc.array).drawing_size.width)

C25_Witness ==
    /\ dxfOp = "get_summary" /\ doc # None /\ dxfRet.kind = "summary"
    /\ dxfRet.total_entities = 2 /\ dxfRet.bounds # None /\ dxf_bounds = None

-----------------------------------------------------------------------------
(* Claims about the read cache *)

\* What the load returns when the file is read afresh.
ReadAfresh ==
    IF ~disk_file.exists \/ ~disk_file.readable THEN None
    ELSE DiskOutcome(ProcessTable(cacheKind, disk_file.table, inferFormat))

\* C23 as stated: for every sequence of file modifications and loads, the
\* table a load returns with the cache equals the one returned when the
\* file is read afresh.
C23_CacheIsPure == cacheOp = "load" => cache_ret = ReadAfresh

\* The cached load equals the fresh read as long as every modification
\* changed the file's modification time.
CacheIsPureWhenMtimeChanges == (cacheOp = "load" /\ ~mtime_kept) => cache_ret = ReadAfresh

-----------------------------------------------------------------------------
(* Claims about the rows of loaded tables *)

\* The cell a loaded table holds for a cell of the file: text as it was, a
\* date or a number read (or the null value).
SameRow(kind, table, loaded, i) ==
    /\ loaded["id"][i] = table["id"][i]
    /\ loaded["Este"][i] = ParseFloat(table["Este"][i])
    /\ loaded["Norte"][i] = ParseFloat(table["Norte"][i])
    /\ (table[RowsDateColumn(kind)][i] = Unparseable) = (loaded[RowsDateColumn(kind)][i] = NaT)

RowsKind == IF source_file.table \in RowsTables("eventos") THEN "eventos" ELSE "alertas"

\* C24: the table a load returns has exactly the rows of the input, in the
\* same order, duplicates and rows with unparseable cells included;
\* validate_data_integrity counts the duplicates and drops none.
C24_RowsKept ==
    loadOp # "none" =>
        /\ df # None
        /\ DOMAIN df.array = DOMAIN source_file.table
        /\ \A c \in DOMAIN df.array : Len(df.array[c]) = Len(source_file.table[c])
        /\ \A i \in 1..RowCount(source_file.table) : SameRow(RowsKind, source_file.table, df.array, i)
        /\ loadOp = "validate_data_integrity" =>
              \E v \in {validation_results.eventos, validation_results.alertas} :
                  v.duplicados = Cardinality(Duplicated(source_file.table))

C24_Witness ==
    /\ loadOp = "validate_data_integrity"
    /\ RowCount(df.array) = 2
    /\ Duplicated(source_file.table) = {2}
    /\ df.array["Este"][1] = NaN
    /\ validation_results.eventos.duplicados = 1

-----------------------------------------------------------------------------
(* Claims about the sidebar filters *)

FiltersApplied == eventos_filtrados # None

Kept(i) == \E k \in DOMAIN eventos_filtrados.array : eventos_filtrados.array[k] = i

EventRows == 1..Len(eventos_df.array["id"])

\* The value a date input starts with: the earliest or the latest valid day.
EarliestDay(t) ==
    IF "Fecha" \notin DOMAIN t THEN None
    ELSE IF ValidDates(t) = {} THEN DefaultDay
    ELSE DayOf(CHOOSE x \in ValidDates(t) : \A y \in ValidDates(t) : StampLeq(x, y))

LatestDay(t) ==
    IF "Fecha" \notin DOMAIN t THEN None
    ELSE IF ValidDates(t) = {} THEN DefaultDay
    ELSE DayOf(CHOOSE x \in ValidDates(t) : \A y \in ValidDates(t) : StampLeq(y, x))

AllOffered(t, c) == IF c \notin DOMAIN t THEN None ELSE Array(Available(t, c))

DefaultSelection ==
    /\ sidebar.fecha_inicio = EarliestDay(eventos_df.array)
    /\ sidebar.fecha_fin = LatestDay(eventos_df.array)
    /\ sidebar.zonas_seleccionadas = AllOffered(eventos_df.array, "Zona monitoreo")
    /\ sidebar.tipos_seleccionados = AllOffered(eventos_df.array, "Tipo")

\* C26: with the default sidebar selection the filtered events table has
\* exactly the rows of the loaded events table, rows with a null date, zone
\* or type included.
C26_DefaultIsIdentity ==
    (FiltersApplied /\ DefaultSelection) => eventos_filtrados.array = RowNumbers(eventos_df.array)

\* The calendar days from the start date to the end date, both included.
OnChosenDays(x, s) == DayKey(s.fecha_inicio) <= DayKey(x) /\ DayKey(x) <= DayKey(s.fecha_fin)

\* The zone and type filters let row i through.
Selects(t, i, c, sel) == c \in DOMAIN t => t[c][i] \in sel.array

\* C27: every event whose timestamp falls on a day from the start date to
\* the end date, at any time of day, is kept (when its zone and type are
\* selected), and every event with a valid timestamp outside those days is
\* removed.
C27_DateRangeInclusive ==
    (FiltersApplied /\ "Fecha" \in DOMAIN eventos_df.array) =>
        \A i \in EventRows :
            eventos_df.array["Fecha"][i] # NaT =>
                /\ (/\ OnChosenDays(eventos_df.array["Fecha"][i], sidebar)
                    /\ Selects(eventos_df.array, i, "Zona monitoreo", sidebar.zonas_seleccionadas)
                    /\ Selects(eventos_df.array, i, "Tipo", sidebar.tipos_seleccionados)) => Kept(i)
                /\ ~OnChosenDays(eventos_df.array["Fecha"][i], sidebar) => ~Kept(i)

\* C28: the zone and type filters keep exactly the events whose zone and
\* type are in the selected sets (among those the date filter keeps); with
\* every zone or every type deselected no event passes.
C28_SelectedSetsOnly ==
    FiltersApplied =>
        \A i \in EventRows :
            Kept(i) <=> (/\ InDays(eventos_df.array, i, sidebar)
                         /\ Selects(eventos_df.array, i, "Zona monitoreo", sidebar.zonas_seleccionadas)
                         /\ Selects(eventos_df.array, i, "Tipo", sidebar.tipos_seleccionados))

\* C29: whatever the selection of dates, zones and types, the alerts table
\* handed on has exactly the rows of the loaded alerts table, and applying
\* the filters leaves the loaded events and alerts tables as they were.
C29_AlertsUnfiltered ==
    /\ [](alertas_filtradas # None => alertas_filtradas.array = RowNumbers(alertas_df.array))
    /\ [][appPc = "loaded" => (eventos_df' = eventos_df /\ alertas_df' = alertas_df)]_vars

C29_Witness ==
    /\ appPc = "filtered"
    /\ Len(alertas_filtradas.array) = 1
    /\ Len(eventos_filtrados.array) = 0 /\ Len(eventos_df.array["id"]) = 2
    /\ sidebar.fecha_inicio # None /\ sidebar.fecha_inicio = sidebar.fecha_fin

====
